---- MODULE Spec2Model ----
(***************************************************************************)
(* A model of genomeshader's staging and caching pipeline:                 *)
(*   - the cache key of a reads request (lib.rs, request_cache_file and    *)
(*     gcs_cache_uri_for_reads_request),                                   *)
(*   - the batch staging of stage.rs (stage_data),                         *)
(*   - the cached reads request of the session (lib.rs,                    *)
(*     get_reads_with_cache).                                              *)
(* Strings the code formats are sequences of one-character strings, so     *)
(* that formatting is computed and not assumed injective.                  *)
(***************************************************************************)
EXTENDS Integers, Sequences, FiniteSets, TLC

VARIABLES
    \* --- cache key (pure functions of lib.rs) ---
    kIn,          \* inputs of one key computation
    kOut,         \* its outputs: None before the computation
    \* --- batch staging (stage.rs) ---
    stArgs,       \* arguments of the last stage_data call (an Option)
    stPc,         \* position of the stage_data call
    task,         \* per source: state of its parallel task
    attempts,     \* per source: attempts the retry loop has made
    taskDf,       \* per source: the table its task returned
    finished,     \* sources in the order their tasks finished
    dfs,          \* the Vec<DataFrame> collected from the tasks
    stDisk,       \* staging cache directory: path -> file content
    stResult,     \* what the stage_data call returned
    stWritten,    \* per path: the writes made to it (sources, outcome)
    stFetched,    \* whether the running call has read from a source
    stPrev,       \* sources, loci and outcome of the call before it (an Option)
    stCalls,      \* number of stage_data calls started so far
    \* --- cached reads request of the session (lib.rs) ---
    cBase,        \* self.cache_base_uri (an Option)
    cCohort,      \* self.reads_cohort, in the order its iteration yields
    cLocal,       \* the local cache directory: path -> file content
    cRemote,      \* the remote mirror: uri -> file content
    cReq,         \* the arguments of the last get_reads_with_cache call (an Option)
    cPc,          \* position of the call
    cFetched,     \* the table fetch_reads_from_bam_urls returned to the call
    cLog,         \* the steps the call has taken, in order
    cResp,        \* what the call returned
    cHist,        \* per cache file: the rows fetched by the call that wrote it
    cCalls,       \* number of calls started so far
    \* --- loci, variants and the staged index of the session (lib.rs) ---
    sLoci,                \* self.loci
    staged_tree,          \* self.staged_tree: the entries (chr, start..end, file)
    variant_file_groups,  \* self.variant_file_groups
    vRemote,              \* parquet objects under the cache base: uri -> table
    sPc,                  \* position of the running stage() call
    sTodo,                \* loci the running stage() call has still to visit
    sResp,                \* the last operation and what it returned
    sOps,                 \* number of operations started so far
    \* --- one retried task per source: open_bam and the loci (stage.rs) ---
    oPc,          \* per source: position of its task
    oLog,         \* per source: the steps of the running open_bam call, with outcomes
    oAttempts,    \* per source: runs of the closure that returned Err
    oRet,         \* per source: what the last open_bam call returned
    \* --- the walk of one record (alignment.rs) ---
    xRec,         \* the record being walked (an Option)
    xIdx,         \* CIGAR operations walked so far
    xSt,          \* ref_pos, read_pos, rows and mask of the walk (an Option)
    xPrev,        \* the walk before its last operation (an Option)
    xPanic,       \* whether the walk has panicked
    \* --- one extract_reads pass over a source (alignment.rs) ---
    pHdr,         \* the records of the header of the source
    pSt,          \* ref_pos, read_pos, rows and mask of the pass
    pTags,        \* read_groups and sample_names, one pair per row
    pLast,        \* the item bam.records() yielded last (an Option)
    pPrev,        \* number of rows before that item
    pN,           \* items yielded so far
    pRet,         \* "running", or how the pass ended
    pDf,          \* the table the pass returned
    pFetch,       \* what bam.fetch returned to the pass
    \* --- the label of one locus, written and parsed back (alignment.rs, stage.rs, lib.rs) ---
    lIn,          \* the locus (contig, start, stop) (an Option)
    lOut,         \* the label and what the two parsers made of it (an Option)
    \* --- one call of locus_should_be_fetched (stage.rs) ---
    fIn,          \* the cache file of the locus and the requested sources (an Option)
    fOut,         \* what the call returned (an Option)
    \* --- the process-wide state the parallel tasks touch (stage.rs, env.rs) ---
    gPc,          \* per source: position of its task in open_bam
    gAttempts,    \* per source: runs of the closure that returned Err
    gPrivate,     \* the sources that open only with an access token
    gEnv,         \* cwd, GCS_OAUTH_TOKEN, CURL_CA_BUNDLE: the task that wrote each last (an Option)
    gWrites,      \* the writes made so far: (task, variable)
    gSaw,         \* per source: the tasks whose token its opens have used
    \* --- the retried closure of one source, locus by locus (stage.rs) ---
    rSrc,         \* the source of the task (an Option)
    rLoci,        \* the loci in the order loci.iter() yields them
    rPc,          \* position of the task
    rTodo,        \* loci the running attempt has still to extract
    rDf,          \* outer_df of the running attempt
    rAttempts,    \* runs of the closure that returned Err
    rPartial,     \* whether a run that returned Err had rows in its outer_df
    rRet          \* the table the task returned (an Option)

keyVars   == <<kIn, kOut>>
stageVars == <<stArgs, stPc, task, attempts, taskDf, finished, dfs, stDisk,
               stResult, stWritten, stFetched, stPrev, stCalls>>
cacheVars == <<cBase, cCohort, cLocal, cRemote, cReq, cPc, cFetched, cLog, cResp, cHist, cCalls>>
sessVars  == <<sLoci, staged_tree, variant_file_groups, vRemote, sPc, sTodo, sResp, sOps>>
openVars  == <<oPc, oLog, oAttempts, oRet>>
exVars    == <<xRec, xIdx, xSt, xPrev, xPanic>>
passVars  == <<pHdr, pSt, pTags, pLast, pPrev, pN, pRet, pDf, pFetch>>
labelVars == <<lIn, lOut>>
shouldVars == <<fIn, fOut>>
sharedVars == <<gPc, gAttempts, gPrivate, gEnv, gWrites, gSaw>>
retryVars == <<rSrc, rLoci, rPc, rTodo, rDf, rAttempts, rPartial, rRet>>
vars      == <<keyVars, stageVars, cacheVars, sessVars, openVars, exVars, passVars, labelVars, shouldVars, sharedVars,
               retryVars>>

\* Option values: None is the empty sequence, Some(x) is <<x>>.
None == <<>>
Some(x) == <<x>>

(***************************************************************************)
(* Bounds of the model.                                                    *)
(***************************************************************************)
NumSources  == 2      \* source files 1..NumSources
MaxPaths    == 3      \* longest bam_paths list of a key computation
MaxAttempts == 2      \* attempts of the retry loop before its time bound
MaxCalls    == 2      \* stage_data calls of one behaviour
MaxRequests == 2      \* get_reads_with_cache calls of one behaviour
MaxSessionOps == 4    \* session operations of one behaviour
MaxGroups   == 2      \* variant tracks attached in one behaviour
U64Modulus  == 1048576 \* wrap-around of the modelled u64 arithmetic
U32Modulus  == 1073741824 \* wrap-around of the modelled u32 arithmetic
HashMod     == 65521  \* width of the modelled hash value

SourceIds == 1..NumSources

(***************************************************************************)
(* Strings.                                                                *)
(***************************************************************************)
Digit(d) == CASE d = 0 -> "0" [] d = 1 -> "1" [] d = 2 -> "2" [] d = 3 -> "3"
              [] d = 4 -> "4" [] d = 5 -> "5" [] d = 6 -> "6" [] d = 7 -> "7"
              [] d = 8 -> "8" [] OTHER -> "9"

RECURSIVE Dec(_)
\* format!("{}", n) of an unsigned integer
Dec(n) == IF n < 10 THEN <<Digit(n)>> ELSE Dec(n \div 10) \o <<Digit(n % 10)>>

\* The contigs and loci of the model: (chr, start, stop), start < stop.
Contigs == {<<"c", "1">>, <<"c", "2">>}
Loci == {<<c, l[1], l[2]>> : c \in Contigs, l \in {<<10, 20>>, <<12, 18>>}}

\* cache_path: std::env::temp_dir()
CachePath == <<"/", "t", "/">>

(***************************************************************************)
(* lib.rs: the cache key.                                                  *)
(***************************************************************************)
RECURSIVE InsertSorted(_, _)
InsertSorted(x, s) ==
    IF s = <<>> THEN <<x>>
    ELSE IF x <= Head(s) THEN <<x>> \o s
    ELSE <<Head(s)>> \o InsertSorted(x, Tail(s))

RECURSIVE SortPaths(_)
\* ordered = bam_paths.to_vec(); ordered.sort()
SortPaths(s) == IF s = <<>> THEN <<>> ELSE InsertSorted(Head(s), SortPaths(Tail(s)))

\* One write of the hasher: the state is mixed with the value written.
HashWrite(h, x) == (h * 31 + x) % HashMod

RECURSIVE HashAll(_, _)
\* for bam in &ordered { bam.hash(&mut hasher) }: a str writes its bytes and 0xff
HashAll(h, s) ==
    IF s = <<>> THEN h
    ELSE HashAll(HashWrite(HashWrite(h, Head(s)), 255), Tail(s))

\* The hash of the paths in the order given (no sort).
UnsortedBamHash(bam_paths) == HashAll(0, bam_paths)

BamHash(bam_paths) == HashAll(0, SortPaths(bam_paths))

RequestCacheFileUnsorted(cache_path, chr, start, stop, bam_paths) ==
    cache_path \o chr \o <<"_">> \o Dec(start) \o <<"_">> \o Dec(stop) \o <<"_">>
        \o Dec(UnsortedBamHash(bam_paths)) \o <<".parquet">>

RequestCacheFile(cache_path, chr, start, stop, bam_paths) ==
    cache_path \o chr \o <<"_">> \o Dec(start) \o <<"_">> \o Dec(stop) \o <<"_">>
        \o Dec(BamHash(bam_paths)) \o <<".parquet">>

RECURSIVE TrimEndSlash(_)
\* base.trim_end_matches('/')
TrimEndSlash(s) ==
    IF s # <<>> /\ s[Len(s)] = "/" THEN TrimEndSlash(SubSeq(s, 1, Len(s) - 1)) ELSE s

\* base is self.cache_base_uri, an Option: None gives None
GcsCacheUriForReadsRequest(base, chr, start, stop, bam_paths) ==
    IF base = None THEN None
    ELSE Some(TrimEndSlash(base[1]) \o <<"/cache/requests/">> \o chr \o <<"_">>
                \o Dec(start) \o <<"_">> \o Dec(stop) \o <<"_">>
                \o Dec(BamHash(bam_paths)) \o <<".parquet">>)

Bases == {None, Some(<<"g", "s", ":", "b">>), Some(<<"g", "s", ":", "b", "/">>)}

RECURSIVE SeqsUpTo(_, _)
SeqsUpTo(S, n) ==
    IF n = 0 THEN {<<>>}
    ELSE LET shorter == SeqsUpTo(S, n - 1)
         IN  shorter \cup {Append(s, x) : s \in {t \in shorter : Len(t) = n - 1}, x \in S}

\* b is a reordering of a
IsPermutation(a, b) ==
    /\ Len(a) = Len(b)
    /\ \A x \in SourceIds :
         Cardinality({i \in DOMAIN a : a[i] = x}) = Cardinality({i \in DOMAIN b : b[i] = x})

KeyInit ==
    /\ kIn \in {Some([locus |-> l, base |-> b, pathsA |-> a, pathsB |-> p]) :
                  l \in Loci, b \in Bases,
                  a \in SeqsUpTo(SourceIds, MaxPaths),
                  p \in SeqsUpTo(SourceIds, MaxPaths)}
    /\ IsPermutation(kIn[1].pathsA, kIn[1].pathsB)
    /\ kOut = None

\* Both key functions applied to both lists of paths.
KeyCompute ==
    /\ kOut = None
    /\ kOut' = Some([fileA |-> RequestCacheFile(CachePath, kIn[1].locus[1], kIn[1].locus[2],
                                           kIn[1].locus[3], kIn[1].pathsA),
                fileB |-> RequestCacheFile(CachePath, kIn[1].locus[1], kIn[1].locus[2],
                                           kIn[1].locus[3], kIn[1].pathsB),
                uriA  |-> GcsCacheUriForReadsRequest(kIn[1].base, kIn[1].locus[1], kIn[1].locus[2],
                                           kIn[1].locus[3], kIn[1].pathsA),
                uriB  |-> GcsCacheUriForReadsRequest(kIn[1].base, kIn[1].locus[1], kIn[1].locus[2],
                                           kIn[1].locus[3], kIn[1].pathsB)])
    /\ UNCHANGED kIn

(***************************************************************************)
(* The alignment sources: the records each source file holds.              *)
(* A record: contig, 0-based reference start, CIGAR, read bases.           *)
(***************************************************************************)
BamRecords(s) ==
    CASE s = 1 -> << [qname |-> "q1", contig |-> <<"c", "1">>, pos |-> 8,
                      is_reverse |-> FALSE, hp |-> 1,
                      cigar |-> << <<"S", 2>>, <<"M", 4>>, <<"X", 1>>, <<"I", 2>>,
                                   <<"D", 3>>, <<"M", 2>> >>,
                      seq |-> <<"A", "C", "G", "T", "A", "C", "G", "T", "A", "C", "G">>] >>
      [] s = 2 -> << [qname |-> "q2", contig |-> <<"c", "1">>, pos |-> 19,
                      is_reverse |-> TRUE, hp |-> 0,
                      cigar |-> << <<"M", 3>> >>,
                      seq |-> <<"T", "T", "T">>],
                     [qname |-> "q3", contig |-> <<"c", "2">>, pos |-> 11,
                      is_reverse |-> FALSE, hp |-> 0,
                      cigar |-> << <<"M", 3>>, <<"X", 1>>, <<"M", 2>> >>,
                      seq |-> <<"G", "G", "G", "A", "G", "G">>] >>
      [] OTHER -> << [qname |-> "q4", contig |-> <<"c", "1">>, pos |-> 13,
                      is_reverse |-> FALSE, hp |-> 2,
                      cigar |-> << <<"M", 2>>, <<"D", 1>>, <<"M", 2>>, <<"S", 1>> >>,
                      seq |-> <<"C", "C", "C", "C", "A">>] >>

ConsumesRef(op) == op \in {"M", "D", "N", "=", "X"}

RECURSIVE RefLen(_)
RefLen(cigar) ==
    IF cigar = <<>> THEN 0
    ELSE (IF ConsumesRef(Head(cigar)[1]) THEN Head(cigar)[2] ELSE 0) + RefLen(Tail(cigar))

\* record.reference_end(): 0-based exclusive end of the alignment
ReferenceEnd(rec) == rec.pos + (IF RefLen(rec.cigar) = 0 THEN 1 ELSE RefLen(rec.cigar))

RECURSIVE SelectRecords(_, _, _, _)
\* bam.fetch((chr, start, stop)); bam.records(): the records overlapping [start, stop)
SelectRecords(recs, chr, start, stop) ==
    IF recs = <<>> THEN <<>>
    ELSE LET r == Head(recs)
             rest == SelectRecords(Tail(recs), chr, start, stop)
         IN  IF r.contig = chr /\ r.pos < stop /\ ReferenceEnd(r) > start
             THEN <<r>> \o rest ELSE rest

(***************************************************************************)
(* alignment.rs: extract_reads.  The walk keeps ref_pos, read_pos, the     *)
(* rows pushed so far and the column-width mask.                           *)
(***************************************************************************)
ElementTypeToU8(e) ==
    CASE e = "READ" -> 0 [] e = "DIFF" -> 1 [] e = "INSERTION" -> 2
      [] e = "DELETION" -> 3 [] OTHER -> 4

Max(a, b) == IF a >= b THEN a ELSE b

\* mask.entry(pos).and_modify(|e| *e = max(*e, n)).or_insert(n)
MaskUpdate(mask, pos, n) ==
    IF pos \in DOMAIN mask THEN [mask EXCEPT ![pos] = Max(@, n)] ELSE (pos :> n) @@ mask

\* The columns pushed for one element of a record.
ElementRow(rec, chr, rstart, rend, etype, bases) ==
    [reference_contig |-> chr, reference_start |-> rstart, reference_end |-> rend,
     is_forward |-> ~rec.is_reverse, query_name |-> rec.qname, haplotype |-> rec.hp,
     element_type |-> ElementTypeToU8(etype), sequence |-> bases]

RECURSIVE SoftClipBases(_, _, _, _, _)
\* for _ in 0..len: one SOFTCLIP row per base; the mask is keyed by ref_pos
SoftClipBases(st, rec, chr, adj_ref_pos, n) ==
    IF n = 0 THEN st
    ELSE SoftClipBases(
            [st EXCEPT
               !.rows = Append(@, ElementRow(rec, chr, adj_ref_pos,
                                             (adj_ref_pos + 1) % U32Modulus,
                                             "SOFTCLIP", <<rec.seq[st.read_pos]>>)),
               !.mask = MaskUpdate(@, st.ref_pos, 1),
               !.read_pos = @ + 1],
            rec, chr, (adj_ref_pos + 1) % U32Modulus, n - 1)

\* The insertion anchored at ref_pos, its slice one base short.
InsertionStepAtRefPos(st, rec, chr, len) ==
    LET cigar_seq == SubSeq(rec.seq, st.read_pos, st.read_pos + len - 2)
    IN  [st EXCEPT
           !.rows = Append(@, ElementRow(rec, chr, st.ref_pos, st.ref_pos + 1,
                                         "INSERTION", cigar_seq)),
           !.mask = MaskUpdate(@, st.ref_pos, Len(cigar_seq)),
           !.read_pos = @ + len]

\* Cigar::Ins(len): one INSERTION row anchored at ref_pos - 1 holding
\* seq[read_pos - 1 .. read_pos + len - 1]; read_pos advances
InsertionStep(st, rec, chr, len) ==
    LET cigar_seq == SubSeq(rec.seq, st.read_pos, st.read_pos + len - 1)
    IN  [st EXCEPT
           !.rows = Append(@, ElementRow(rec, chr, st.ref_pos - 1, st.ref_pos,
                                         "INSERTION", cigar_seq)),
           !.mask = MaskUpdate(@, st.ref_pos - 1, Len(cigar_seq)),
           !.read_pos = @ + len]

\* One CIGAR operation, the idx-th of the record.
CigarStep(st, rec, chr, idx) ==
    LET op  == rec.cigar[idx][1]
        len == rec.cigar[idx][2]
    IN  CASE op \in {"M", "="} ->
               [st EXCEPT !.ref_pos = @ + len, !.read_pos = @ + len]
          [] op = "I" -> InsertionStep(st, rec, chr, len)
          [] op = "D" ->
               [st EXCEPT
                  !.rows = Append(@, ElementRow(rec, chr, st.ref_pos, st.ref_pos + len,
                                                "DELETION", <<>>)),
                  !.mask = MaskUpdate(@, st.ref_pos, len),
                  !.ref_pos = @ + len]
          [] op = "X" ->
               [st EXCEPT
                  !.rows = Append(@, ElementRow(rec, chr, st.ref_pos, st.ref_pos + 1,
                                                "DIFF", <<rec.seq[st.read_pos]>>)),
                  !.mask = MaskUpdate(@, st.ref_pos, 1),
                  !.ref_pos = @ + len,
                  !.read_pos = @ + len]
          [] op = "N" ->
               [st EXCEPT !.ref_pos = @ + len]
          [] op = "S" ->
               SoftClipBases(st, rec, chr,
                             IF idx = 1 THEN (st.ref_pos - len) % U32Modulus
                                        ELSE st.ref_pos, len)
          [] OTHER -> st    \* HardClip, Pad

RECURSIVE WalkCigar(_, _, _, _)
WalkCigar(st, rec, chr, idx) ==
    IF idx > Len(rec.cigar) THEN st
    ELSE WalkCigar(CigarStep(st, rec, chr, idx), rec, chr, idx + 1)

\* The READ row carrying the read bases.
StartRecordWithBases(st, rec, chr) ==
    [st EXCEPT
       !.rows = Append(@, ElementRow(rec, chr, rec.pos + 1, ReferenceEnd(rec),
                                     "READ", rec.seq)),
       !.ref_pos = rec.pos + 1,
       !.read_pos = 1]

\* The READ row of a record (reference_start() + 1, reference_end(), empty
\* sequence) and the start of its walk.
StartRecord(st, rec, chr) ==
    [st EXCEPT
       !.rows = Append(@, ElementRow(rec, chr, rec.pos + 1, ReferenceEnd(rec),
                                     "READ", <<>>)),
       !.ref_pos = rec.pos + 1,
       !.read_pos = 1]

\* One record: the READ row, then the rows of its CIGAR operations.
RecordRows(st, rec, chr) == WalkCigar(StartRecord(st, rec, chr), rec, chr, 1)

RECURSIVE AllRecordRows(_, _, _)
AllRecordRows(st, recs, chr) ==
    IF recs = <<>> THEN st
    ELSE AllRecordRows(RecordRows(st, Head(recs), chr), Tail(recs), chr)

\* format!("{}:{}-{}", chr, start, stop)
ChunkLabel(chr, start, stop) == chr \o <<":">> \o Dec(start) \o <<"-">> \o Dec(stop)

\* The table extract_reads returns for one source and one locus.
ExtractReads(s, cohort, chr, start, stop) ==
    LET st == AllRecordRows([rows |-> <<>>, mask |-> <<>>, ref_pos |-> 0, read_pos |-> 0],
                            SelectRecords(BamRecords(s), chr, start, stop), chr)
    IN  [i \in DOMAIN st.rows |->
            [chunk |-> ChunkLabel(chr, start, stop), cohort |-> cohort, bam_path |-> s,
             reference_contig |-> st.rows[i].reference_contig,
             reference_start |-> st.rows[i].reference_start,
             reference_end |-> st.rows[i].reference_end,
             is_forward |-> st.rows[i].is_forward,
             query_name |-> st.rows[i].query_name,
             haplotype |-> st.rows[i].haplotype,
             element_type |-> st.rows[i].element_type,
             sequence |-> st.rows[i].sequence,
             column_width |-> IF st.rows[i].reference_start \in DOMAIN st.mask
                              THEN st.mask[st.rows[i].reference_start] ELSE 1]]

(***************************************************************************)
(* stage.rs: stage_data.                                                   *)
(***************************************************************************)
\* open_bam: a plain open; on failure gcs_authorize_data_access() (which panics
\* when the credential step fails) and a second open; on failure
\* local_guess_curl_ca_bundle() and a last open.
OpenBam(open1, auth, open2, open3) ==
    IF open1 THEN "ok"
    ELSE IF ~auth THEN "panic"
    ELSE IF open2 \/ open3 THEN "ok"
    ELSE "err"

RECURSIVE StageDataFromOneFile(_, _, _)
\* for (chr, start, stop) in loci.iter(): outer_df.vstack_mut(extract_reads(..))
StageDataFromOneFile(s, cohort, loci) ==
    IF loci = <<>> THEN <<>>
    ELSE ExtractReads(s, cohort, Head(loci)[1], Head(loci)[2], Head(loci)[3])
            \o StageDataFromOneFile(s, cohort, Tail(loci))

\* The tables in the order the tasks finished.
CollectByCompletion(order, done, tables) == [i \in DOMAIN done |-> tables[done[i]]]

\* par_iter().map(..).collect(): the tables in the iteration order of reads_cohort
CollectDfs(order, done, tables) == [i \in DOMAIN order |-> tables[order[i]]]

RECURSIVE VStack(_)
\* for df in dfs { outer_df.vstack_mut(&df) }
VStack(tables) == IF tables = <<>> THEN <<>> ELSE Head(tables) \o VStack(Tail(tables))

RECURSIVE SplitLabel(_, _)
\* l_fmt.split(|c| c == ':' || c == '-'): cur is the part being read
SplitLabel(chars, cur) ==
    IF chars = <<>> THEN <<cur>>
    ELSE IF Head(chars) \in {":", "-"} THEN <<cur>> \o SplitLabel(Tail(chars), <<>>)
    ELSE SplitLabel(Tail(chars), Append(cur, Head(chars)))

DigitVal(c) ==
    CASE c = "0" -> 0 [] c = "1" -> 1 [] c = "2" -> 2 [] c = "3" -> 3 [] c = "4" -> 4
      [] c = "5" -> 5 [] c = "6" -> 6 [] c = "7" -> 7 [] c = "8" -> 8 [] c = "9" -> 9
      [] OTHER -> -1

RECURSIVE ParseDigits(_, _)
ParseDigits(chars, acc) ==
    IF chars = <<>> THEN acc
    ELSE IF DigitVal(Head(chars)) < 0 THEN -1
    ELSE ParseDigits(Tail(chars), acc * 10 + DigitVal(Head(chars)))

\* parse::<u64>(): -1 stands for Err
ParseU64(chars) == IF chars = <<>> THEN -1 ELSE ParseDigits(chars, 0)

\* cache_path.join(format!("{}_{}_{}.parquet", chr, start, stop))
StageFileName(cache_path, chr, start, stop) ==
    cache_path \o chr \o <<"_">> \o Dec(start) \o <<"_">> \o Dec(stop) \o <<".parquet">>

\* .drop(["chunk"])
DropChunk(row) == [f \in (DOMAIN row) \ {"chunk"} |-> row[f]]

RECURSIVE FilterChunk(_, _)
\* .filter(col("chunk").eq(lit(l_fmt))).drop(["chunk"])
FilterChunk(df, label) ==
    IF df = <<>> THEN <<>>
    ELSE IF Head(df).chunk = label
         THEN <<DropChunk(Head(df))>> \o FilterChunk(Tail(df), label)
         ELSE FilterChunk(Tail(df), label)

\* The iteration orders of a reads_cohort set: the orderings of its subsets.
Orders == {o \in SeqsUpTo(SourceIds, NumSources) :
             o # <<>> /\ \A i, j \in DOMAIN o : i # j => o[i] # o[j]}

\* The iteration orders of the loci sets staged.
LociSeqs == { << <<<<"c", "1">>, 10, 20>> >>,
              << <<<<"c", "2">>, 10, 20>>, <<<<"c", "1">>, 10, 20>> >> }

Range(f) == {f[i] : i \in DOMAIN f}

StageInit ==
    /\ stArgs = None
    /\ stPc = "idle"
    /\ task = [s \in SourceIds |-> "none"]
    /\ attempts = [s \in SourceIds |-> 0]
    /\ taskDf = [s \in SourceIds |-> <<>>]
    /\ finished = <<>>
    /\ dfs = <<>>
    /\ stDisk = <<>>
    /\ stResult = [status |-> "none", locus_to_file |-> <<>>]
    /\ stWritten = {}
    /\ stFetched = FALSE
    /\ stPrev = None
    /\ stCalls = 0

\* stage_data is called: the parallel tasks of stage_data_from_all_files start.
StageData(order, loci, use_cache, calls) ==
    /\ stPc = "idle"
    /\ stCalls < calls
    /\ stArgs' = Some([order |-> order, loci |-> loci, use_cache |-> use_cache])
    /\ stPrev' = IF stArgs = None THEN None
                 ELSE Some([sources |-> Range(stArgs[1].order),
                            loci |-> Range(stArgs[1].loci),
                            ok |-> stResult.status = "ok"])
    /\ stPc' = "par"
    /\ task' = [s \in SourceIds |-> IF s \in Range(order) THEN "pending" ELSE "none"]
    /\ attempts' = [s \in SourceIds |-> 0]
    /\ taskDf' = [s \in SourceIds |-> <<>>]
    /\ finished' = <<>>
    /\ dfs' = <<>>
    /\ stResult' = [status |-> "none", locus_to_file |-> <<>>]
    /\ stFetched' = FALSE
    /\ stCalls' = stCalls + 1
    /\ UNCHANGED <<stDisk, stWritten>>

\* One run of the retried closure of source s: open_bam, then extract_reads
\* of every locus.  An Err is retried until the backoff gives up, and then
\* the task panics.
TaskAttempt(s, opened, extract) ==
    /\ stPc = "par"
    /\ task[s] = "pending"
    /\     /\ stFetched' = (stFetched \/ opened = "ok")
           /\ IF opened = "panic"
              THEN /\ task' = [task EXCEPT ![s] = "panicked"]
                   /\ UNCHANGED <<attempts, taskDf, finished>>
              ELSE IF opened = "ok" /\ extract
              THEN /\ task' = [task EXCEPT ![s] = "ok"]
                   /\ attempts' = [attempts EXCEPT ![s] = @ + 1]
                   /\ taskDf' = [taskDf EXCEPT
                                   ![s] = StageDataFromOneFile(s, "cohort", stArgs[1].loci)]
                   /\ finished' = Append(finished, s)
              ELSE /\ attempts' = [attempts EXCEPT ![s] = @ + 1]
                   /\ task' = [task EXCEPT
                                 ![s] = IF attempts[s] + 1 >= MaxAttempts
                                        THEN "panicked" ELSE "pending"]
                   /\ UNCHANGED <<taskDf, finished>>
    /\ UNCHANGED <<stArgs, stPc, dfs, stDisk, stResult, stWritten, stPrev, stCalls>>

\* The panic of a task leaves stage_data_from_all_files: stage_data does not return.
StagePanic ==
    /\ stPc = "par"
    /\ \E s \in SourceIds : task[s] = "panicked"
    /\ stPc' = "idle"
    /\ stResult' = [status |-> "panic", locus_to_file |-> <<>>]
    /\ UNCHANGED <<stArgs, task, attempts, taskDf, finished, dfs, stDisk, stWritten,
                   stFetched, stPrev, stCalls>>

\* Every task returned its table: the tables are collected into dfs.
StageCollect ==
    /\ stPc = "par"
    /\ \A s \in Range(stArgs[1].order) : task[s] = "ok"
    /\ dfs' = CollectDfs(stArgs[1].order, finished, taskDf)
    /\ stPc' = "write"
    /\ UNCHANGED <<stArgs, task, attempts, taskDf, finished, stDisk, stResult, stWritten,
                   stFetched, stPrev, stCalls>>

\* write_to_disk: the loop over groups.groups() runs once, on the table of
\* all groups, and takes the label of its first row: one group is written.
WriteToDisk(label, createOk, finishOk) ==
    /\ stPc = "write"
    /\ LET outer_df == VStack(dfs)
           parts == SplitLabel(label, <<>>)
       IN  IF outer_df = <<>>
           THEN /\ stResult' = [status |-> "panic", locus_to_file |-> <<>>]
                /\ UNCHANGED <<stDisk, stWritten>>
           ELSE /\ label \in {outer_df[i].chunk : i \in DOMAIN outer_df}
                /\ IF \/ Len(parts) < 3
                      \/ ParseU64(parts[2]) < 0
                      \/ ParseU64(parts[3]) < 0
                      \/ ~createOk
                   THEN /\ stResult' = [status |-> "panic", locus_to_file |-> <<>>]
                        /\ UNCHANGED <<stDisk, stWritten>>
                   ELSE LET chr == parts[1]
                            start == ParseU64(parts[2])
                            stop == ParseU64(parts[3])
                            filename == StageFileName(CachePath, chr, start, stop)
                            content == [complete |-> finishOk,
                                        rows |-> IF finishOk
                                                 THEN FilterChunk(outer_df, label)
                                                 ELSE <<>>]
                        IN  /\ stDisk' = (filename :> content) @@ stDisk
                            /\ stWritten' = stWritten \cup
                                  {[path |-> filename, locus |-> <<chr, start, stop>>,
                                    sources |-> Range(stArgs[1].order), ok |-> finishOk]}
                            /\ stResult' = [status |-> "ok", locus_to_file |->
                                              (<<chr, start, stop>> :> filename)]
    /\ stPc' = "idle"
    /\ UNCHANGED <<stArgs, task, attempts, taskDf, finished, dfs, stFetched, stPrev,
                   stCalls>>

\* What open_bam can return, over the outcomes of its opens and its credential step.
OpenOutcomes == {OpenBam(open1, auth, open2, open3) : open1, auth, open2, open3 \in BOOLEAN}

ChunkLabels == {ChunkLabel(l[1], l[2], l[3]) : l \in Loci}

KeyIdle == kIn = None /\ kOut = None

(***************************************************************************)
(* lib.rs: get_reads_with_cache.                                           *)
(***************************************************************************)
\* `as u32` of a u64: every coordinate of the model is below 2^32, where the
\* cast keeps the value.
AsU32(x) == x

\* filter_reads_df: the rows overlapping [start, stop) that come from bam_paths
FilterReadsDf(df, start, stop, bam_paths) ==
    SelectSeq(df, LAMBDA r :
        /\ r.reference_start < AsU32(stop)
        /\ r.reference_end > AsU32(start)
        /\ (bam_paths = <<>> \/ r.bam_path \in Range(bam_paths)))

\* The merged table of the sources in ok, in the order of reads_urls.
FetchReadsFromBamUrls(reads_urls, ok, cohort, chr, start, stop) ==
    VStack([i \in DOMAIN reads_urls |->
               IF reads_urls[i] \in ok
               THEN ExtractReads(reads_urls[i], cohort, chr, start, stop)
               ELSE <<>>])

\* The loci the session is asked for.
RequestLoci == {<<<<"c", "1">>, 10, 20>>, <<<<"c", "1">>, 12, 18>>}

NoResp == [status |-> "none", rows |-> <<>>]

ReqPath == RequestCacheFile(CachePath, cReq[1].chr, cReq[1].start, cReq[1].stop,
                            cReq[1].bam_paths)

ReqUri == GcsCacheUriForReadsRequest(cBase, cReq[1].chr, cReq[1].start, cReq[1].stop,
                                     cReq[1].bam_paths)

\* request_cache.exists(): read_parquet_df and filter_reads_df answer the call.
\* A file that was not written completely cannot be read: the call returns Err.
ServeFromCache(file, start, stop, bam_paths) ==
    IF file.complete
    THEN [status |-> "ok", rows |-> FilterReadsDf(file.rows, start, stop, bam_paths)]
    ELSE [status |-> "err", rows |-> <<>>]

CacheInit ==
    /\ cBase \in {None, Some(<<"g", "s", ":", "b", "/">>)}
    /\ cCohort \in Orders
    /\ cLocal = <<>>
    /\ cRemote = <<>>
    /\ cReq = None
    /\ cPc = "idle"
    /\ cFetched = <<>>
    /\ cLog = <<>>
    /\ cResp = NoResp
    /\ cHist = <<>>
    /\ cCalls = 0

CacheIdle ==
    /\ cBase = None
    /\ cCohort = <<>>
    /\ cLocal = <<>>
    /\ cRemote = <<>>
    /\ cReq = None
    /\ cPc = "idle"
    /\ cFetched = <<>>
    /\ cLog = <<>>
    /\ cResp = NoResp
    /\ cHist = <<>>
    /\ cCalls = 0

\* get_locus calls get_reads_with_cache with the attached reads, which looks
\* for the local cache file first.
GetReadsWithCache(locus, bam_paths) ==
    /\ cPc = "idle"
    /\ cCalls < MaxRequests
    /\ cCalls' = cCalls + 1
    /\ cReq' = Some([chr |-> locus[1], start |-> locus[2], stop |-> locus[3],
                     bam_paths |-> bam_paths])
    /\ cFetched' = <<>>
    /\ LET path == RequestCacheFile(CachePath, locus[1], locus[2], locus[3], bam_paths)
       IN  IF path \in DOMAIN cLocal
           THEN /\ cLog' = <<"local_hit">>
                /\ cResp' = ServeFromCache(cLocal[path], locus[2], locus[3], bam_paths)
                /\ cPc' = "idle"
           ELSE /\ cLog' = <<"local_miss">>
                /\ cResp' = NoResp
                /\ cPc' = IF cBase = None THEN "fetch" ELSE "download"
    /\ UNCHANGED <<cBase, cCohort, cLocal, cRemote, cHist>>

\* try_download_gcs_cache and the second look at the local file, without it.
CacheDownloadNoRecheck(authOk, lsOk, cpOk) ==
    /\ cPc = "download"
    /\ IF ~authOk
       THEN /\ cLog' = cLog \o <<"download", "auth_panic">>
            /\ cResp' = [status |-> "panic", rows |-> <<>>]
            /\ cPc' = "idle"
            /\ UNCHANGED cLocal
       ELSE IF ReqUri[1] \in DOMAIN cRemote /\ lsOk /\ cpOk
       THEN /\ cLocal' = (ReqPath :> cRemote[ReqUri[1]]) @@ cLocal
            /\ cLog' = cLog \o <<"download">>
            /\ cPc' = "fetch"
            /\ UNCHANGED cResp
       ELSE /\ cLog' = cLog \o <<"download">>
            /\ cPc' = "fetch"
            /\ UNCHANGED <<cLocal, cResp>>
    /\ UNCHANGED <<cBase, cCohort, cRemote, cReq, cFetched, cHist, cCalls>>

\* try_download_gcs_cache(remote_uri, request_cache), then request_cache.exists()
\* again.  gcs_object_exists and run_gcs_cp begin with
\* gcs_authorize_data_access(), which panics when the credential step fails; a
\* missing object is a quiet miss, a failed copy is logged.
CacheDownload(authOk, lsOk, cpOk) ==
    /\ cPc = "download"
    /\ IF ~authOk
       THEN /\ cLog' = cLog \o <<"download", "auth_panic">>
            /\ cResp' = [status |-> "panic", rows |-> <<>>]
            /\ cPc' = "idle"
            /\ UNCHANGED cLocal
       ELSE IF ReqUri[1] \in DOMAIN cRemote /\ lsOk /\ cpOk
       THEN /\ cLocal' = (ReqPath :> cRemote[ReqUri[1]]) @@ cLocal
            /\ cLog' = cLog \o <<"download", "recheck_hit">>
            /\ cResp' = ServeFromCache(cRemote[ReqUri[1]], cReq[1].start, cReq[1].stop,
                                     cReq[1].bam_paths)
            /\ cPc' = "idle"
       ELSE /\ cLog' = cLog \o (IF ReqUri[1] \in DOMAIN cRemote /\ lsOk
                                 THEN <<"download", "download_err", "recheck_miss">>
                                 ELSE <<"download", "recheck_miss">>)
            /\ cPc' = "fetch"
            /\ UNCHANGED <<cLocal, cResp>>
    /\ UNCHANGED <<cBase, cCohort, cRemote, cReq, cFetched, cHist, cCalls>>

\* fetch_reads_from_bam_urls: ok are the sources that could be read; Err when
\* none could.
CacheFetch(ok) ==
    /\ cPc = "fetch"
    /\ ok \subseteq Range(cReq[1].bam_paths)
    /\ IF ok = {}
       THEN /\ cLog' = cLog \o <<"fetch", "fetch_err">>
            /\ cResp' = [status |-> "err", rows |-> <<>>]
            /\ cPc' = "idle"
            /\ UNCHANGED cFetched
       ELSE /\ cLog' = cLog \o <<"fetch">>
            /\ cFetched' = FetchReadsFromBamUrls(cReq[1].bam_paths, ok, "all",
                                cReq[1].chr, cReq[1].start, cReq[1].stop)
            /\ cPc' = "write"
            /\ UNCHANGED cResp
    /\ UNCHANGED <<cBase, cCohort, cLocal, cRemote, cReq, cHist, cCalls>>

\* The write with its result discarded: the call goes on after a failed write.
CacheWriteIgnoringErr(createOk, finishOk) ==
    /\ cPc = "write"
    /\ cLocal' = IF createOk
                 THEN (ReqPath :> [complete |-> finishOk,
                                   rows |-> IF finishOk THEN cFetched ELSE <<>>]) @@ cLocal
                 ELSE cLocal
    /\ cLog' = cLog \o <<IF createOk /\ finishOk THEN "write_ok" ELSE "write_err">>
    /\ cHist' = IF createOk /\ finishOk THEN (ReqPath :> cFetched) @@ cHist ELSE cHist
    /\ IF cBase = None
       THEN /\ cResp' = [status |-> "ok", rows |-> cFetched]
            /\ cPc' = "idle"
       ELSE /\ cPc' = "upload"
            /\ UNCHANGED cResp
    /\ UNCHANGED <<cBase, cCohort, cRemote, cReq, cFetched, cCalls>>

\* self.write_parquet_df(&request_cache, fetched.clone())?: a failed create
\* leaves no file, a failed finish leaves an incomplete one; both return Err.
CacheWrite(createOk, finishOk) ==
    /\ cPc = "write"
    /\ cLocal' = IF createOk
                 THEN (ReqPath :> [complete |-> finishOk,
                                   rows |-> IF finishOk THEN cFetched ELSE <<>>]) @@ cLocal
                 ELSE cLocal
    /\ IF ~(createOk /\ finishOk)
       THEN /\ cLog' = cLog \o <<"write_err">>
            /\ cResp' = [status |-> "err", rows |-> <<>>]
            /\ cPc' = "idle"
            /\ UNCHANGED cHist
       ELSE /\ cLog' = cLog \o <<"write_ok">>
            /\ cHist' = (ReqPath :> cFetched) @@ cHist
            /\ IF cBase = None
               THEN /\ cResp' = [status |-> "ok", rows |-> cFetched]
                    /\ cPc' = "idle"
               ELSE /\ cPc' = "upload"
                    /\ UNCHANGED cResp
    /\ UNCHANGED <<cBase, cCohort, cRemote, cReq, cFetched, cCalls>>

\* try_upload_gcs_cache(&request_cache, &remote_uri), then Ok(fetched).
\* run_gcs_cp begins with gcs_authorize_data_access(), which panics when the
\* credential step fails; a failed copy is logged.
CacheUpload(authOk, cpOk) ==
    /\ cPc = "upload"
    /\ cPc' = "idle"
    /\ IF ReqPath \notin DOMAIN cLocal
       THEN /\ cLog' = cLog
            /\ cResp' = [status |-> "ok", rows |-> cFetched]
            /\ UNCHANGED cRemote
       ELSE IF ~authOk
       THEN /\ cLog' = cLog \o <<"upload", "auth_panic">>
            /\ cResp' = [status |-> "panic", rows |-> <<>>]
            /\ UNCHANGED cRemote
       ELSE /\ cLog' = cLog \o (IF cpOk THEN <<"upload">> ELSE <<"upload", "upload_err">>)
            /\ cRemote' = IF cpOk THEN (ReqUri[1] :> cLocal[ReqPath]) @@ cRemote
                          ELSE cRemote
            /\ cResp' = [status |-> "ok", rows |-> cFetched]
    /\ UNCHANGED <<cBase, cCohort, cLocal, cReq, cFetched, cHist, cCalls>>

\* The temporary directory loses a cache file between two calls.
CacheEvict(path) ==
    /\ cPc = "idle"
    /\ path \in DOMAIN cLocal
    /\ cLocal' = [p \in (DOMAIN cLocal) \ {path} |-> cLocal[p]]
    /\ UNCHANGED <<cBase, cCohort, cRemote, cReq, cPc, cFetched, cLog, cResp, cHist, cCalls>>

(***************************************************************************)
(* Specifications.                                                         *)
(***************************************************************************)
(* lib.rs: loci, variants and the staged index of the session.             *)
(***************************************************************************)
RECURSIVE RemoveCommas(_)
\* locus.replace(",", "")
RemoveCommas(chars) ==
    IF chars = <<>> THEN <<>>
    ELSE IF Head(chars) = "," THEN RemoveCommas(Tail(chars))
    ELSE <<Head(chars)>> \o RemoveCommas(Tail(chars))

\* parts[i].parse::<u64>(): -1 stands for Err (also a value beyond the type)
ParseU64Field(chars) ==
    LET v == ParseU64(chars) IN IF v >= U64Modulus THEN -1 ELSE v

LocusErr   == [status |-> "err", chr |-> <<>>, start |-> 0, stop |-> 0]
LocusPanic == [status |-> "panic", chr |-> <<>>, start |-> 0, stop |-> 0]
LocusOk(chr, start, stop) == [status |-> "ok", chr |-> chr, start |-> start, stop |-> stop]

\* The window half-width of the single-position form.
HalfWindow == 1000

\* parse_locus: the outcomes the builds can produce.  `start - 1000` and
\* `start + 1000` are unchecked u64 arithmetic: a build with overflow checks
\* panics, a build without them wraps.
ParseLocus(locus) ==
    LET parts == SplitLabel(RemoveCommas(locus), <<>>)
    IN  IF Len(parts) = 2
        THEN LET start == ParseU64Field(parts[2])
             IN  IF start < 0 THEN {LocusErr}
                 ELSE IF start < HalfWindow \/ start + HalfWindow >= U64Modulus
                 THEN {LocusPanic,
                       LocusOk(parts[1], (start - HalfWindow) % U64Modulus,
                               (start + HalfWindow) % U64Modulus)}
                 ELSE {LocusOk(parts[1], start - HalfWindow, start + HalfWindow)}
        ELSE IF Len(parts) = 3
        THEN LET start == ParseU64Field(parts[2])
                 stop  == ParseU64Field(parts[3])
             IN  IF start < 0 \/ stop < 0 THEN {LocusErr}
                 ELSE {LocusOk(parts[1], start, stop)}
        ELSE {LocusErr}

\* The locus strings the session is given.
LocusStrings ==
    { <<"c", "1", ":", "1", "0", "-", "2", "0">>,
      <<"c", "1", ":", "1", "2", "-", "1", "5">>,
      <<"c", "1", ":", "2", "0", "-", "1", "0">>,
      <<"c", "1", ":", "1", ",", "5", "0", "0">>,
      <<"c", "1", ":", "1", "5">>,
      <<"c", "2", ":", "1", "0", "-", "2", "0">>,
      <<"c", "1">> }

\* The variant files of the model and the extension check of attach_variants.
VariantFileName(f) ==
    CASE f = 1 -> <<"a", ".", "v", "c", "f">>
      [] f = 2 -> <<"b", ".", "b", "c", "f">>
      [] OTHER -> <<"c", ".", "t", "x", "t">>

EndsWith(name, suffix) ==
    /\ Len(name) >= Len(suffix)
    /\ SubSeq(name, Len(name) - Len(suffix) + 1, Len(name)) = suffix

IsVariantFile(f) ==
    \/ EndsWith(VariantFileName(f), <<".", "b", "c", "f">>)
    \/ EndsWith(VariantFileName(f), <<".", "v", "c", "f">>)
    \/ EndsWith(VariantFileName(f), <<".", "v", "c", "f", ".", "g", "z">>)

VariantFiles == {1, 2, 3}

\* The records of a variant file: pos is 0-based, as record.pos() gives it.
VariantRecords(f) ==
    CASE f = 1 -> << [contig |-> <<"c", "1">>, pos |-> 11, ref |-> "A", alts |-> <<"C">>],
                     [contig |-> <<"c", "1">>, pos |-> 14, ref |-> "G", alts |-> <<"T", "A">>],
                     [contig |-> <<"c", "1">>, pos |-> 19, ref |-> "C", alts |-> <<"T">>] >>
      [] f = 2 -> << [contig |-> <<"c", "2">>, pos |-> 9, ref |-> "T", alts |-> <<"G">>],
                     [contig |-> <<"c", "1">>, pos |-> 14, ref |-> "G", alts |-> <<"T">>] >>
      [] OTHER -> <<>>

\* The index of key in seen, 0 when absent.
IndexOf(seen, key) ==
    IF \E i \in DOMAIN seen : seen[i] = key
    THEN CHOOSE i \in DOMAIN seen : seen[i] = key
    ELSE 0

RECURSIVE AltRows(_, _, _, _, _, _)
\* for alt_allele in alt_alleles_list: one row per sample (the files have one
\* sample); variant_map gives a new (pos, ref, alt) the next id.
AltRows(chr, pos, ref, alts, seen, rows) ==
    IF alts = <<>> THEN [seen |-> seen, rows |-> rows]
    ELSE LET key   == <<pos, ref, Head(alts)>>
             seen2 == IF IndexOf(seen, key) = 0 THEN Append(seen, key) ELSE seen
         IN  AltRows(chr, pos, ref, Tail(alts), seen2,
                     Append(rows, [chromosome |-> chr, position |-> pos,
                                   ref_allele |-> ref, alt_allele |-> Head(alts),
                                   sample_name |-> "s",
                                   variant_id |-> IndexOf(seen2, key) - 1]))

RECURSIVE VariantRows(_, _, _, _, _, _)
\* for record_result in reader.records(): pos = record.pos() + 1; records with
\* pos < start or pos > stop are skipped; the contig of a record is not read.
VariantRows(recs, chr, start, stop, seen, rows) ==
    IF recs = <<>> THEN rows
    ELSE LET r   == Head(recs)
             pos == r.pos + 1
         IN  IF pos < start \/ pos > stop
             THEN VariantRows(Tail(recs), chr, start, stop, seen, rows)
             ELSE LET a == AltRows(chr, pos, r.ref, r.alts, seen, rows)
                  IN  VariantRows(Tail(recs), chr, start, stop, a.seen, a.rows)

\* variants::extract_variants of a file that could be opened
ExtractVariants(f, chr, start, stop) ==
    VariantRows(VariantRecords(f), chr, start, stop, <<>>, <<>>)

RECURSIVE GroupDf(_, _, _, _, _)
\* for variant_file in file_list: the tables of the files in ok, stacked;
\* a file that fails is skipped with a warning
GroupDf(file_list, ok, chr, start, stop) ==
    IF file_list = <<>> THEN <<>>
    ELSE (IF Head(file_list) \in ok
          THEN <<ExtractVariants(Head(file_list), chr, start, stop)>> ELSE <<>>)
         \o GroupDf(Tail(file_list), ok, chr, start, stop)

WithTrackId(df, id) ==
    [i \in DOMAIN df |->
        [chromosome |-> df[i].chromosome, position |-> df[i].position,
         ref_allele |-> df[i].ref_allele, alt_allele |-> df[i].alt_allele,
         sample_name |-> df[i].sample_name, variant_id |-> df[i].variant_id,
         variant_track_id |-> id]]

RECURSIVE CombineGroups(_, _, _, _, _, _)
\* for (group_index, file_list) in variant_file_groups.iter().enumerate():
\* the result is the sequence of the tables of the groups that have one
CombineGroups(groups, idx, ok, chr, start, stop) ==
    IF idx > Len(groups) THEN <<>>
    ELSE LET dfs_ == GroupDf(groups[idx], ok, chr, start, stop)
         IN  (IF dfs_ = <<>> THEN <<>> ELSE <<WithTrackId(VStack(dfs_), idx - 1)>>)
             \o CombineGroups(groups, idx + 1, ok, chr, start, stop)

\* compute_variants_for_locus: Err when no group gave a table
ComputeVariantsForLocus(groups, ok, chr, start, stop) ==
    LET parts == CombineGroups(groups, 1, ok, chr, start, stop)
    IN  IF parts = <<>> THEN [status |-> "err", rows |-> <<>>]
        ELSE [status |-> "ok", rows |-> VStack(parts)]

RECURSIVE VariantDatasetHashFrom(_, _, _)
\* variant_dataset_hash: group_idx.hash, then file.hash for each file
VariantDatasetHashFrom(h, groups, idx) ==
    IF idx > Len(groups) THEN h
    ELSE VariantDatasetHashFrom(HashAll(HashWrite(h, idx - 1), groups[idx]), groups, idx + 1)

VariantDatasetHash(groups) == VariantDatasetHashFrom(0, groups, 1)

GcsCacheUriForVariantStage(base, chr, start, stop, dataset_hash) ==
    IF base = None THEN None
    ELSE Some(TrimEndSlash(base[1]) \o <<"/cache/variants/staged/">> \o Dec(dataset_hash)
                \o <<"/">> \o chr \o <<"_">> \o Dec(start) \o <<"_">> \o Dec(stop)
                \o <<".parquet">>)

GcsCacheUriForVariantRequest(base, chr, start, stop, dataset_hash) ==
    IF base = None THEN None
    ELSE Some(TrimEndSlash(base[1]) \o <<"/cache/variants/requests/">> \o Dec(dataset_hash)
                \o <<"/">> \o chr \o <<"_">> \o Dec(start) \o <<"_">> \o Dec(stop)
                \o <<".parquet">>)

\* filter_variant_df: col("position") >= start and col("position") <= stop
FilterVariantDf(df, start, stop) ==
    SelectSeq(df, LAMBDA r : r.position >= start /\ r.position <= stop)

\* The staged index is a map contig -> interval map; an interval map is the
\* set of its entries, one per distinct range.
NoEntry == [status |-> "none", start |-> 0, end |-> 0, file |-> <<>>]

\* e comes before f in the iteration of an interval map
EntryBefore(e, f) == e.start < f.start \/ (e.start = f.start /\ e.end <= f.end)

\* The lookup without the containment test: the first overlapping entry.
FindOverlappingVariantStagedFile(tree, chr, start, stop) ==
    IF chr \notin DOMAIN tree THEN NoEntry
    ELSE IF start >= stop THEN [NoEntry EXCEPT !.status = "panic"]
    ELSE LET cov == {e \in tree[chr] : e.start < stop /\ e.end > start}
         IN  IF cov = {} THEN NoEntry
             ELSE LET e == CHOOSE x \in cov : \A y \in cov : EntryBefore(x, y)
                  IN  [status |-> "some", start |-> e.start, end |-> e.end, file |-> e.file]

\* find_covering_variant_staged_file: subtree.iter(start..stop) yields the
\* entries overlapping the query in ascending order and panics on an empty
\* query; the first entry that contains the query is returned.
FindCoveringVariantStagedFile(tree, chr, start, stop) ==
    IF chr \notin DOMAIN tree THEN NoEntry
    ELSE IF start >= stop THEN [NoEntry EXCEPT !.status = "panic"]
    ELSE LET cov == {e \in tree[chr] : /\ e.start < stop /\ e.end > start
                                      /\ e.start <= start /\ e.end >= stop}
         IN  IF cov = {} THEN NoEntry
             ELSE LET e == CHOOSE x \in cov : \A y \in cov : EntryBefore(x, y)
                  IN  [status |-> "some", start |-> e.start, end |-> e.end, file |-> e.file]

WithKey(tree, chr) == IF chr \in DOMAIN tree THEN tree ELSE (chr :> {}) @@ tree

\* The insertion with a plain insert, which replaces the value of the range.
TreeInsertOverwrite(tree, chr, start, stop, file) ==
    LET t == WithKey(tree, chr)
    IN  IF start >= stop THEN [status |-> "panic", tree |-> t]
        ELSE [status |-> "ok",
              tree |-> [t EXCEPT ![chr] =
                           {e \in @ : ~(e.start = start /\ e.end = stop)}
                           \cup {[start |-> start, end |-> stop, file |-> file]}]]

\* staged_tree.insert(chr, IntervalMap::new()) when the contig is new, then
\* map.entry(start..stop).or_insert(file): entry panics on an empty range and
\* or_insert keeps the value of a range that is present.
TreeInsert(tree, chr, start, stop, file) ==
    LET t == WithKey(tree, chr)
    IN  IF start >= stop THEN [status |-> "panic", tree |-> t]
        ELSE IF \E e \in t[chr] : e.start = start /\ e.end = stop
        THEN [status |-> "ok", tree |-> t]
        ELSE [status |-> "ok",
              tree |-> [t EXCEPT ![chr] =
                           @ \cup {[start |-> start, end |-> stop, file |-> file]}]]

NoSessResp ==
    [op |-> "none", status |-> "none", rows |-> <<>>, chr |-> <<>>, start |-> 0,
     stop |-> 0, served |-> "none"]

\* parse_locus on the strings of the model.
ParseTable == [locus \in LocusStrings |-> ParseLocus(locus)]

\* The outcome of parse_locus in a build without (wrap) or with overflow checks.
PickLocus(locus, wrap) ==
    LET o == ParseTable[locus]
    IN  IF Cardinality(o) = 1 THEN CHOOSE x \in o : TRUE
        ELSE IF wrap THEN CHOOSE x \in o : x.status = "ok"
        ELSE LocusPanic

RECURSIVE AttachLoop(_, _, _)
\* for locus in loci: insert the parsed locus; the first Err is returned
AttachLoop(strs, acc, wrap) ==
    IF strs = <<>> THEN [status |-> "ok", loci |-> acc]
    ELSE LET l == PickLocus(Head(strs), wrap)
         IN  IF l.status # "ok" THEN [status |-> l.status, loci |-> acc]
             ELSE AttachLoop(Tail(strs), acc \cup {<<l.chr, l.start, l.stop>>}, wrap)

RECURSIVE Perms(_)
\* The orders in which a HashSet can be iterated.
Perms(S) ==
    IF S = {} THEN {<<>>}
    ELSE UNION {{<<x>> \o q : q \in Perms(S \ {x})} : x \in S}

SessInit ==
    /\ sLoci = {}
    /\ staged_tree = <<>>
    /\ variant_file_groups = <<>>
    /\ vRemote = <<>>
    /\ sPc = "idle"
    /\ sTodo = [use_cache |-> FALSE, rest |-> <<>>]
    /\ sResp = NoSessResp
    /\ sOps = 0

\* attach_loci
AttachLoci(strs, wrap) ==
    /\ sPc = "idle"
    /\ sOps < MaxSessionOps
    /\ sOps' = sOps + 1
    /\ LET r == AttachLoop(strs, sLoci, wrap)
       IN  /\ sLoci' = r.loci
           /\ sResp' = [NoSessResp EXCEPT !.op = "attach_loci", !.status = r.status]
    /\ UNCHANGED <<staged_tree, variant_file_groups, vRemote, sPc, sTodo>>

\* attach_variants
AttachVariants(files) ==
    /\ sPc = "idle"
    /\ sOps < MaxSessionOps
    /\ Len(variant_file_groups) < MaxGroups
    /\ sOps' = sOps + 1
    /\ IF \E i \in DOMAIN files : ~IsVariantFile(files[i])
       THEN /\ sResp' = [NoSessResp EXCEPT !.op = "attach_variants", !.status = "err"]
            /\ UNCHANGED variant_file_groups
       ELSE /\ sResp' = [NoSessResp EXCEPT !.op = "attach_variants", !.status = "ok"]
            /\ variant_file_groups' = Append(variant_file_groups, files)
    /\ UNCHANGED <<sLoci, staged_tree, vRemote, sPc, sTodo>>

\* stage(use_cache): the loop starts over self.loci in the order the set yields
Stage(use_cache, order) ==
    /\ sPc = "idle"
    /\ sOps < MaxSessionOps
    /\ order \in Perms(sLoci)
    /\ sOps' = sOps + 1
    /\ sTodo' = [use_cache |-> use_cache, rest |-> order]
    /\ sPc' = IF order = <<>> THEN "idle" ELSE "stage"
    /\ sResp' = [NoSessResp EXCEPT !.op = "stage",
                                   !.status = IF order = <<>> THEN "ok" ELSE "none"]
    /\ UNCHANGED <<sLoci, staged_tree, variant_file_groups, vRemote>>

\* One turn of the loop of stage(): readOk, ok and writeOk are what the
\* remote read, the variant files and the remote write do.
StageLocus(readOk, ok, writeOk) ==
    /\ sPc = "stage"
    /\ LET l    == Head(sTodo.rest)
           hash == VariantDatasetHash(variant_file_groups)
           uri  == GcsCacheUriForVariantStage(cBase, l[1], l[2], l[3], hash)
           hit  == uri # None /\ sTodo.use_cache /\ readOk /\ uri[1] \in DOMAIN vRemote
           df   == ComputeVariantsForLocus(variant_file_groups, ok, l[1], l[2], l[3])
           ins  == TreeInsert(staged_tree, l[1], l[2], l[3], uri[1])
           fail(st) == /\ sResp' = [sResp EXCEPT !.status = st]
                       /\ sPc' = "idle"
                       /\ sTodo' = [sTodo EXCEPT !.rest = <<>>]
       IN  IF uri = None
           THEN fail("err") /\ UNCHANGED <<staged_tree, vRemote>>
           ELSE IF ~hit /\ df.status = "err"
           THEN fail("err") /\ UNCHANGED <<staged_tree, vRemote>>
           ELSE IF ~hit /\ ~writeOk
           THEN fail("err") /\ UNCHANGED <<staged_tree, vRemote>>
           ELSE /\ vRemote' = IF hit THEN vRemote ELSE (uri[1] :> df.rows) @@ vRemote
                /\ staged_tree' = ins.tree
                /\ IF ins.status = "panic"
                   THEN fail("panic")
                   ELSE /\ sTodo' = [sTodo EXCEPT !.rest = Tail(@)]
                        /\ sPc' = IF Tail(sTodo.rest) = <<>> THEN "idle" ELSE "stage"
                        /\ sResp' = [sResp EXCEPT
                                        !.status = IF Tail(sTodo.rest) = <<>>
                                                   THEN "ok" ELSE "none"]
    /\ UNCHANGED <<sLoci, variant_file_groups, sOps>>

\* get_locus_variants
GetLocusVariants(locus, wrap, readStagedOk, readReqOk, ok, writeOk) ==
    /\ sPc = "idle"
    /\ sOps < MaxSessionOps
    /\ sOps' = sOps + 1
    /\ LET l      == PickLocus(locus, wrap)
           resp   == [NoSessResp EXCEPT !.op = "get_locus_variants", !.chr = l.chr,
                                        !.start = l.start, !.stop = l.stop]
           hash   == VariantDatasetHash(variant_file_groups)
           found  == FindCoveringVariantStagedFile(staged_tree, l.chr, l.start, l.stop)
           sUri   == GcsCacheUriForVariantStage(cBase, l.chr, found.start, found.end, hash)
           sHit   == /\ found.status = "some" /\ sUri # None
                     /\ readStagedOk /\ sUri[1] \in DOMAIN vRemote
           rUri   == GcsCacheUriForVariantRequest(cBase, l.chr, l.start, l.stop, hash)
           rHit   == rUri # None /\ readReqOk /\ rUri[1] \in DOMAIN vRemote
           df     == ComputeVariantsForLocus(variant_file_groups, ok, l.chr, l.start, l.stop)
           ins    == TreeInsert(staged_tree, l.chr, l.start, l.stop, rUri[1])
       IN  IF l.status # "ok"
           THEN /\ sResp' = [resp EXCEPT !.status = l.status]
                /\ UNCHANGED <<staged_tree, vRemote>>
           ELSE IF variant_file_groups = <<>>
           THEN /\ sResp' = [resp EXCEPT !.status = "err"]
                /\ UNCHANGED <<staged_tree, vRemote>>
           ELSE IF found.status = "panic"
           THEN /\ sResp' = [resp EXCEPT !.status = "panic"]
                /\ UNCHANGED <<staged_tree, vRemote>>
           ELSE IF sHit
           THEN /\ sResp' = [resp EXCEPT
                               !.status = "ok", !.served = "staged",
                               !.rows = FilterVariantDf(vRemote[sUri[1]], l.start, l.stop)]
                /\ UNCHANGED <<staged_tree, vRemote>>
           ELSE IF rHit
           THEN /\ sResp' = [resp EXCEPT !.status = "ok", !.served = "request",
                                         !.rows = vRemote[rUri[1]]]
                /\ UNCHANGED <<staged_tree, vRemote>>
           ELSE IF df.status = "err"
           THEN /\ sResp' = [resp EXCEPT !.status = "err"]
                /\ UNCHANGED <<staged_tree, vRemote>>
           ELSE /\ vRemote' = IF rUri # None /\ writeOk
                              THEN (rUri[1] :> df.rows) @@ vRemote ELSE vRemote
                /\ IF rUri = None
                   THEN /\ staged_tree' = WithKey(staged_tree, l.chr)
                        /\ sResp' = [resp EXCEPT !.status = "ok", !.served = "fresh",
                                                 !.rows = df.rows]
                   ELSE /\ staged_tree' = ins.tree
                        /\ sResp' = IF ins.status = "panic"
                                    THEN [resp EXCEPT !.status = "panic"]
                                    ELSE [resp EXCEPT !.status = "ok", !.served = "fresh",
                                                      !.rows = df.rows]
    /\ UNCHANGED <<sLoci, variant_file_groups, sPc, sTodo>>

\* reset
Reset ==
    /\ sPc = "idle"
    /\ sOps < MaxSessionOps
    /\ sOps' = sOps + 1
    /\ sLoci' = {}
    /\ staged_tree' = <<>>
    /\ variant_file_groups' = <<>>
    /\ cCohort' = <<>>
    /\ sResp' = [NoSessResp EXCEPT !.op = "reset", !.status = "ok"]
    /\ UNCHANGED <<vRemote, sPc, sTodo>>
    /\ UNCHANGED <<cBase, cLocal, cRemote, cReq, cPc, cFetched, cLog, cResp, cHist, cCalls>>

(***************************************************************************)
(***************************************************************************)
(* stage.rs: one retried task, step by step.  backoff::retry runs the       *)
(* closure (open_bam, then extract_reads of every locus) until it returns   *)
(* Ok or the backoff gives up; MaxAttempts stands for the runs that fit in  *)
(* the maximum elapsed time of the backoff.                                 *)
(***************************************************************************)
OpenIdle ==
    /\ oPc = [s \in SourceIds |-> "none"]
    /\ oLog = [s \in SourceIds |-> <<>>]
    /\ oAttempts = [s \in SourceIds |-> 0]
    /\ oRet = [s \in SourceIds |-> "none"]

\* par_iter() over reads_cohort: one task per source, none started
OpenInit ==
    /\ oPc = [s \in SourceIds |-> "start"]
    /\ oLog = [s \in SourceIds |-> <<>>]
    /\ oAttempts = [s \in SourceIds |-> 0]
    /\ oRet = [s \in SourceIds |-> "none"]

LogStep(s, step, ok) == [oLog EXCEPT ![s] = Append(@, [step |-> step, ok |-> ok])]

\* env::set_current_dir(cache_path).unwrap(); IndexedReader::from_url(reads_url)
OpenFirst(s, chdirOk, ok) ==
    /\ oPc[s] = "start"
    /\ IF ~chdirOk
       THEN oPc' = [oPc EXCEPT ![s] = "panicked"] /\ UNCHANGED <<oLog, oRet>>
       ELSE /\ oLog' = LogStep(s, "open1", ok)
            /\ oPc' = [oPc EXCEPT ![s] = IF ok THEN "extract" ELSE "auth"]
            /\ oRet' = [oRet EXCEPT ![s] = IF ok THEN "ok" ELSE "none"]
    /\ UNCHANGED oAttempts

\* gcs_authorize_data_access(): panics when gcloud is missing or refuses
OpenAuthorize(s, ok) ==
    /\ oPc[s] = "auth"
    /\ oLog' = LogStep(s, "auth", ok)
    /\ oPc' = [oPc EXCEPT ![s] = IF ok THEN "open2" ELSE "panicked"]
    /\ UNCHANGED <<oAttempts, oRet>>

\* The second open returning Err from open_bam when it fails.
OpenSecondNoFallback(s, ok) ==
    /\ oPc[s] = "open2"
    /\ oLog' = LogStep(s, "open2", ok)
    /\ oPc' = [oPc EXCEPT ![s] = IF ok THEN "extract" ELSE "failed"]
    /\ oRet' = [oRet EXCEPT ![s] = IF ok THEN "ok" ELSE "err"]
    /\ UNCHANGED oAttempts

\* the second IndexedReader::from_url(reads_url)
OpenSecond(s, ok) ==
    /\ oPc[s] = "open2"
    /\ oLog' = LogStep(s, "open2", ok)
    /\ oPc' = [oPc EXCEPT ![s] = IF ok THEN "extract" ELSE "ca"]
    /\ oRet' = [oRet EXCEPT ![s] = IF ok THEN "ok" ELSE "none"]
    /\ UNCHANGED oAttempts

\* local_guess_curl_ca_bundle(): sets CURL_CA_BUNDLE when it can, never fails
OpenTrustStore(s) ==
    /\ oPc[s] = "ca"
    /\ oLog' = LogStep(s, "ca", TRUE)
    /\ oPc' = [oPc EXCEPT ![s] = "open3"]
    /\ UNCHANGED <<oAttempts, oRet>>

\* IndexedReader::from_url(reads_url)?: the last open, its error returned
OpenThird(s, ok) ==
    /\ oPc[s] = "open3"
    /\ oLog' = LogStep(s, "open3", ok)
    /\ oPc' = [oPc EXCEPT ![s] = IF ok THEN "extract" ELSE "failed"]
    /\ oRet' = [oRet EXCEPT ![s] = IF ok THEN "ok" ELSE "err"]
    /\ UNCHANGED oAttempts

\* for (chr, start, stop) in loci.iter() { extract_reads(..)? }
ExtractLoci(s, ok) ==
    /\ oPc[s] = "extract"
    /\ oPc' = [oPc EXCEPT ![s] = IF ok THEN "done" ELSE "failed"]
    /\ UNCHANGED <<oLog, oAttempts, oRet>>

\* A retry that never gives up.
BackoffForever(s) ==
    /\ oPc[s] = "failed"
    /\ oPc' = [oPc EXCEPT ![s] = "start"]
    /\ oLog' = [oLog EXCEPT ![s] = <<>>]
    /\ oRet' = [oRet EXCEPT ![s] = "none"]
    /\ UNCHANGED oAttempts

\* backoff::retry after an Err of the closure: run it again, or give up when
\* the backoff is exhausted, and then panic!("Error: {}", e)
Backoff(s) ==
    /\ oPc[s] = "failed"
    /\ oAttempts' = [oAttempts EXCEPT ![s] = @ + 1]
    /\ IF oAttempts[s] + 1 >= MaxAttempts
       THEN oPc' = [oPc EXCEPT ![s] = "panicked"] /\ UNCHANGED <<oLog, oRet>>
       ELSE /\ oPc' = [oPc EXCEPT ![s] = "start"]
            /\ oLog' = [oLog EXCEPT ![s] = <<>>]
            /\ oRet' = [oRet EXCEPT ![s] = "none"]

\* No record is being walked.
ExIdle == xRec = None /\ xIdx = 0 /\ xSt = None /\ xPrev = None /\ xPanic = FALSE

(***************************************************************************)
(* alignment.rs: the walk of one record, one CIGAR operation per step.      *)
(***************************************************************************)
MaxOps == 3

\* The lengths of the operations of the generated CIGAR strings.
OpLens == {1, 2}

CigarOps == {"M", "I", "D", "N", "S", "H", "P", "=", "X"}

ConsumesQuery(op) == op \in {"M", "I", "S", "=", "X"}

RECURSIVE QueryLen(_)
QueryLen(cigar) ==
    IF cigar = <<>> THEN 0
    ELSE (IF ConsumesQuery(Head(cigar)[1]) THEN Head(cigar)[2] ELSE 0) + QueryLen(Tail(cigar))

\* A CIGAR string a BAM file can hold: hard clips at the ends only, soft
\* clips with nothing but clips between them and the ends.
ValidCigar(cigar) ==
    /\ \A i \in DOMAIN cigar : cigar[i][1] = "H" => i \in {1, Len(cigar)}
    /\ \A i \in DOMAIN cigar :
          cigar[i][1] = "S" =>
             \/ \A j \in 1..(i - 1) : cigar[j][1] \in {"H", "S"}
             \/ \A j \in (i + 1)..Len(cigar) : cigar[j][1] \in {"H", "S"}

BaseAt(i) == <<"A", "C", "G", "T">>[(i % 4) + 1]

\* 0-based start of the generated records.
GenPos == 10

GenRecordAt(pos, cigar) ==
    [qname |-> "g", contig |-> <<"c", "1">>, pos |-> pos, is_reverse |-> FALSE, hp |-> 0,
     cigar |-> cigar, seq |-> [i \in 1..QueryLen(cigar) |-> BaseAt(i)]]

GenRecord(cigar) == GenRecordAt(GenPos, cigar)

\* Records at the start of the contig whose first operation is a soft clip.
ContigStartRecords ==
    {GenRecordAt(0, c) : c \in {x \in SeqsUpTo(CigarOps \X OpLens, 2) :
                                    ValidCigar(x) /\ x # <<>> /\ x[1][1] = "S"}}

\* Records with an operation of length 0, which the CIGAR encoding admits.
ZeroLengthRecords ==
    {GenRecord(c) : c \in {x \in SeqsUpTo(CigarOps \X {0, 2}, 2) :
                               ValidCigar(x) /\ \E i \in DOMAIN x : x[i][2] = 0}}

GenRecords ==
    {GenRecord(c) : c \in {x \in SeqsUpTo(CigarOps \X OpLens, MaxOps) : ValidCigar(x)}}

\* The insertion of the record of test_extract_reads_manual.
ReferenceInsertion ==
    <<"T", "G", "A", "T", "G", "C", "G", "C", "G", "C", "C", "A", "T", "A", "T", "A",
      "G", "C", "G", "A", "T", "A", "T", "A", "T", "G", "A", "C", "T", "A", "T", "A">>

\* The read bases of that record which the test shows: three clipped bases at
\* each end, five mismatches and the insertion; "N" where the test is silent.
ReferenceBase(i) ==
    CASE i = 1 -> "G" [] i = 2 -> "A" [] i = 3 -> "C"
      [] i = 21 -> "G" [] i = 27 -> "C" [] i = 77 -> "A"
      [] i \in 258..289 -> ReferenceInsertion[i - 257]
      [] i = 330 -> "C" [] i = 744 -> "G"
      [] i = 815 -> "C" [] i = 816 -> "T" [] i = 817 -> "G"
      [] OTHER -> "N"

ReferenceCigar ==
    << <<"S", 3>>, <<"=", 17>>, <<"X", 1>>, <<"=", 5>>, <<"X", 1>>, <<"=", 49>>, <<"X", 1>>,
       <<"=", 158>>, <<"D", 69>>, <<"=", 22>>, <<"I", 32>>, <<"=", 40>>, <<"X", 1>>,
       <<"=", 413>>, <<"X", 1>>, <<"=", 70>>, <<"S", 3>> >>

\* The record read by test_extract_reads_manual, as its expected columns
\* determine it (0-based start 66409754, reverse strand).
ReferenceRecord ==
    [qname |-> "1", contig |-> <<"c", "1">>, pos |-> 66409754, is_reverse |-> TRUE, hp |-> 0,
     cigar |-> ReferenceCigar,
     seq |-> [i \in 1..QueryLen(ReferenceCigar) |-> ReferenceBase(i)]]

\* The columns the test expects.
ReferenceStarts ==
    <<66409755, 66409752, 66409753, 66409754, 66409772, 66409778, 66409828, 66409987,
      66410077, 66410118, 66410532, 66410603, 66410604, 66410605>>

ReferenceEnds ==
    <<66410602, 66409753, 66409754, 66409755, 66409773, 66409779, 66409829, 66410056,
      66410078, 66410119, 66410533, 66410604, 66410605, 66410606>>

ReferenceElementTypes == <<0, 4, 4, 4, 1, 1, 1, 3, 2, 1, 1, 4, 4, 4>>

ReferenceSequences ==
    <<<<>>, <<"G">>, <<"A">>, <<"C">>, <<"G">>, <<"C">>, <<"A">>, <<>>, ReferenceInsertion,
      <<"C">>, <<"G">>, <<"C">>, <<"T">>, <<"G">>>>

ExtractRecords ==
    GenRecords \cup ContigStartRecords \cup ZeroLengthRecords \cup {ReferenceRecord}

\* bam.records() yielded a record: nothing pushed yet
ExInit ==
    /\ xRec \in {Some(r) : r \in ExtractRecords}
    /\ xIdx = 0
    /\ xSt = None
    /\ xPrev = None
    /\ xPanic = FALSE

\* The head of the record loop: the READ row, ref_pos and read_pos.
ReadRow ==
    /\ xRec # None
    /\ xSt = None
    /\ xSt' = Some(StartRecord([rows |-> <<>>, mask |-> <<>>, ref_pos |-> 0, read_pos |-> 0],
                               xRec[1], xRec[1].contig))
    /\ UNCHANGED <<xRec, xIdx, xPrev, xPanic>>

\* Whether the idx-th operation panics: `ref_pos - len` below zero in a build
\* with overflow checks, or record.seq()[read_pos - 1] past the read.
StepPanics(st, rec, idx, checked) ==
    LET op  == rec.cigar[idx][1]
        len == rec.cigar[idx][2]
    IN  \/ op = "S" /\ idx = 1 /\ st.ref_pos < len /\ checked
        \/ op = "X" /\ st.read_pos > Len(rec.seq)

\* The builds that differ on the next operation.
OverflowChecks ==
    IF /\ xRec # None /\ xSt # None /\ xIdx = 0 /\ xRec[1].cigar # <<>>
       /\ xRec[1].cigar[1][1] = "S" /\ xSt[1].ref_pos < xRec[1].cigar[1][2]
    THEN BOOLEAN ELSE {FALSE}

\* One turn of the loop over record.cigar().
WalkStep(checked) ==
    /\ xSt # None
    /\ ~xPanic
    /\ xIdx < Len(xRec[1].cigar)
    /\ IF StepPanics(xSt[1], xRec[1], xIdx + 1, checked)
       THEN xPanic' = TRUE /\ UNCHANGED <<xRec, xIdx, xSt, xPrev>>
       ELSE /\ xPrev' = xSt
            /\ xSt' = Some(CigarStep(xSt[1], xRec[1], xRec[1].contig, xIdx + 1))
            /\ xIdx' = xIdx + 1
            /\ UNCHANGED <<xRec, xPanic>>

(***************************************************************************)
(* alignment.rs: one extract_reads pass, one record of the source per step. *)
(***************************************************************************)
MaxPassRecords == 2

\* The records of the generated headers: a read group with its sample and
\* a read group without one.
HeaderLines == {[ID |-> "r1", SM |-> "s1"], [ID |-> "r2"]}

\* get_rg_to_sm_mapping: the header records that have both ID and SM
GetRgToSmMapping(header) ==
    LET kept == {l \in header : "ID" \in DOMAIN l /\ "SM" \in DOMAIN l}
    IN  [id \in {l.ID : l \in kept} |-> (CHOOSE l \in kept : l.ID = id).SM]

PassOps == {"S", "I", "D", "M"}

PassLens == {0, 2}

\* What bam.records() yields: Err for a record that does not decode, or a
\* record with its RG tag (an Option).
PassItems ==
    {[ok |-> FALSE]} \cup
    {[ok |-> TRUE, rec |-> GenRecord(c), rg |-> rg] :
        c \in {x \in SeqsUpTo(PassOps \X PassLens, 2) : ValidCigar(x) /\ x # <<>>},
        rg \in {None, Some("r1"), Some("r2")}}

\* The locus of the pass.
PassLocus == <<<<"c", "1">>, 0, 100>>

NoWalk == [rows |-> <<>>, mask |-> <<>>, ref_pos |-> 0, read_pos |-> 0]

PassIdle ==
    /\ pHdr = {} /\ pSt = NoWalk /\ pTags = <<>> /\ pLast = None /\ pPrev = 0
    /\ pN = 0 /\ pRet = "none" /\ pDf = <<>> /\ pFetch = "none"

\* extract_reads was called on a source: `let _ = bam.fetch(..)` returned
\* and its result was dropped, nothing read yet
PassInit ==
    /\ pHdr \in SUBSET HeaderLines
    /\ pSt = NoWalk /\ pTags = <<>> /\ pLast = None /\ pPrev = 0
    /\ pN = 0 /\ pRet = "running" /\ pDf = <<>>
    /\ pFetch \in {"ok", "err"}

RECURSIVE WalkPanics(_, _, _, _, _)
\* Whether the walk of the record panics at some operation from idx on.
WalkPanics(st, rec, chr, idx, checked) ==
    IF idx > Len(rec.cigar) THEN FALSE
    ELSE \/ StepPanics(st, rec, idx, checked)
         \/ WalkPanics(CigarStep(st, rec, chr, idx), rec, chr, idx + 1, checked)

\* The read_group and sample_name pushed with every row of a record whose
\* RG lookup does not panic.
ReadGroupColumns(rg, map) ==
    IF rg # None THEN <<rg[1], map[rg[1]]>> ELSE <<"unknown", "unknown">>

\* One turn of `for (_, r) in bam.records().enumerate()`.  After a fetch
\* that failed the cursor has no record of the locus to yield: the loop
\* ends, or the read of the cursor fails.
PassRecord(item, checked) ==
    /\ pRet = "running"
    /\ pN < MaxPassRecords
    /\ pFetch = "ok" \/ ~item.ok
    /\ pN' = pN + 1
    /\ pLast' = Some(item)
    /\ pPrev' = Len(pSt.rows)
    /\ IF ~item.ok
       THEN \* let record = r?;
            pRet' = "err" /\ UNCHANGED <<pSt, pTags>>
       ELSE LET map == GetRgToSmMapping(pHdr)
                chr == PassLocus[1]
            IN  IF item.rg # None /\ item.rg[1] \notin DOMAIN map
                THEN \* rg_sm_map.get(rg).unwrap()
                     pRet' = "panic" /\ UNCHANGED <<pSt, pTags>>
                ELSE IF WalkPanics(StartRecord(pSt, item.rec, chr), item.rec, chr, 1, checked)
                THEN pRet' = "panic" /\ UNCHANGED <<pSt, pTags>>
                ELSE LET st == RecordRows(pSt, item.rec, chr)
                     IN  /\ pSt' = st
                         /\ pTags' = pTags \o [i \in 1..(Len(st.rows) - Len(pSt.rows)) |->
                                                  ReadGroupColumns(item.rg, map)]
                         /\ pRet' = "running"
    /\ UNCHANGED <<pHdr, pDf, pFetch>>

\* The table built after the loop.
PassTable(st, tags) ==
    [i \in DOMAIN st.rows |->
        [chunk |-> ChunkLabel(PassLocus[1], PassLocus[2], PassLocus[3]),
         reference_contig |-> st.rows[i].reference_contig,
         reference_start |-> st.rows[i].reference_start,
         reference_end |-> st.rows[i].reference_end,
         is_forward |-> st.rows[i].is_forward,
         query_name |-> st.rows[i].query_name,
         haplotype |-> st.rows[i].haplotype,
         read_group |-> tags[i][1],
         sample_name |-> tags[i][2],
         element_type |-> st.rows[i].element_type,
         sequence |-> st.rows[i].sequence,
         column_width |-> IF st.rows[i].reference_start \in DOMAIN st.mask
                          THEN st.mask[st.rows[i].reference_start] ELSE 1]]

\* bam.records() is exhausted: the column_width lookup and Ok(df)
PassFinish ==
    /\ pRet = "running"
    /\ pRet' = "ok"
    /\ pDf' = PassTable(pSt, pTags)
    /\ UNCHANGED <<pHdr, pSt, pTags, pLast, pPrev, pN, pFetch>>

(***************************************************************************)
(* The chunk label of a locus: written by extract_reads, split again by     *)
(* write_to_disk and by parse_locus.                                        *)
(***************************************************************************)
MaxContigLen == 2

MaxCoord == 3

\* The characters of the generated contig names; a reference name may hold
\* ':' and '-'.
ContigChars == {"c", "1", ":", "-"}

ContigNames == SeqsUpTo(ContigChars, MaxContigLen) \ {<<>>}

\* write_to_disk: parts[0], parts[1].parse::<u64>().unwrap(),
\* parts[2].parse::<u64>().unwrap() of the split label
SplitChunkLabel(label) ==
    LET parts == SplitLabel(label, <<>>)
    IN  IF Len(parts) < 3 \/ ParseU64Field(parts[2]) < 0 \/ ParseU64Field(parts[3]) < 0
        THEN LocusPanic
        ELSE LocusOk(parts[1], ParseU64Field(parts[2]), ParseU64Field(parts[3]))

LabelIdle == lIn = None /\ lOut = None

LabelInit ==
    /\ lIn \in {Some(<<c, start, stop>>) : c \in ContigNames, start, stop \in 0..MaxCoord}
    /\ lOut = None

\* The label of the locus is written into the chunk column, then split by
\* write_to_disk and parsed by parse_locus.
LabelRoundTrip(parsed) ==
    /\ lIn # None
    /\ lOut = None
    /\ LET label == ChunkLabel(lIn[1][1], lIn[1][2], lIn[1][3])
       IN  /\ parsed \in ParseLocus(label)
           /\ lOut' = Some([label |-> label, staged |-> SplitChunkLabel(label),
                            parsed |-> parsed])
    /\ UNCHANGED lIn

(***************************************************************************)
(* stage.rs: locus_should_be_fetched.                                       *)
(***************************************************************************)
MaxCachedSources == 3

CachedSourceIds == 1..MaxCachedSources

\* The cache file of the locus: absent, unreadable, or holding the rows of
\* one group, whose bam_path values form a non-empty set of sources.
CacheFiles ==
    {[exists |-> FALSE]} \cup {[exists |-> TRUE, readable |-> FALSE]}
      \cup {[exists |-> TRUE, readable |-> TRUE, bam_paths |-> c] :
               c \in (SUBSET CachedSourceIds) \ {{}}}

\* locus_should_be_fetched: true when the file is missing or holds a source
\* outside the requested ones; the opens and reads are unwrapped.
LocusShouldBeFetched(file, reads_paths) ==
    IF ~file.exists THEN "true"
    ELSE IF ~file.readable THEN "panic"
    ELSE LET bam_path_series == file.bam_paths
             intersection == bam_path_series \cap reads_paths
         IN  IF Cardinality(bam_path_series) # Cardinality(intersection)
             THEN "true" ELSE "false"

ShouldIdle == fIn = None /\ fOut = None

ShouldInit ==
    /\ fIn \in {Some([file |-> f, reads_paths |-> r]) :
                   f \in CacheFiles, r \in SUBSET CachedSourceIds}
    /\ fOut = None

ShouldCall ==
    /\ fIn # None
    /\ fOut = None
    /\ fOut' = Some(LocusShouldBeFetched(fIn[1].file, fIn[1].reads_paths))
    /\ UNCHANGED fIn

(***************************************************************************)
(* stage.rs, env.rs: the parallel tasks and the process-wide state.  Each   *)
(* task runs open_bam inside the retried closure; the working directory     *)
(* and the environment belong to the process.                               *)
(***************************************************************************)
ProcessVars == {"cwd", "GCS_OAUTH_TOKEN", "CURL_CA_BUNDLE"}

SharedIdle ==
    /\ gPc = [s \in SourceIds |-> "none"]
    /\ gAttempts = [s \in SourceIds |-> 0]
    /\ gPrivate = {}
    /\ gEnv = [v \in ProcessVars |-> None]
    /\ gWrites = {}
    /\ gSaw = [s \in SourceIds |-> {}]

\* par_iter() over reads_cohort: one task per source, none started; nothing
\* of the process state written yet
SharedInit ==
    /\ gPc = [s \in SourceIds |-> "start"]
    /\ gAttempts = [s \in SourceIds |-> 0]
    /\ gPrivate \in SUBSET SourceIds
    /\ gEnv = [v \in ProcessVars |-> None]
    /\ gWrites = {}
    /\ gSaw = [s \in SourceIds |-> {}]

\* Whether IndexedReader::from_url can succeed: a private source needs the
\* token in the environment.
CanOpen(s) == s \notin gPrivate \/ gEnv["GCS_OAUTH_TOKEN"] # None

\* The token an open of s uses, as the set of its writers.
TokenUsed(s, ok) ==
    IF ok /\ s \in gPrivate THEN {gEnv["GCS_OAUTH_TOKEN"][1]} ELSE {}

\* An open: next position on success and on failure.
SharedOpen(s, ok, from, onErr) ==
    /\ gPc[s] = from
    /\ ok => CanOpen(s)
    /\ gPc' = [gPc EXCEPT ![s] = IF ok THEN "done" ELSE onErr]
    /\ gSaw' = [gSaw EXCEPT ![s] = @ \cup TokenUsed(s, ok)]

\* env::set_current_dir(cache_path).unwrap()
SharedChdir(s, ok) ==
    /\ gPc[s] = "start"
    /\ IF ok
       THEN /\ gPc' = [gPc EXCEPT ![s] = "open1"]
            /\ gEnv' = [gEnv EXCEPT !["cwd"] = Some(s)]
            /\ gWrites' = gWrites \cup {<<s, "cwd">>}
       ELSE /\ gPc' = [gPc EXCEPT ![s] = "panicked"]
            /\ UNCHANGED <<gEnv, gWrites>>
    /\ UNCHANGED <<gAttempts, gPrivate, gSaw>>

\* IndexedReader::from_url(reads_url), first try
SharedOpenFirst(s, ok) ==
    /\ SharedOpen(s, ok, "open1", "auth")
    /\ UNCHANGED <<gAttempts, gPrivate, gEnv, gWrites>>

\* gcs_authorize_data_access(): std::env::set_var("GCS_OAUTH_TOKEN", token),
\* or a panic when gcloud is missing or refuses
SharedAuthorize(s, ok) ==
    /\ gPc[s] = "auth"
    /\ IF ok
       THEN /\ gPc' = [gPc EXCEPT ![s] = "open2"]
            /\ gEnv' = [gEnv EXCEPT !["GCS_OAUTH_TOKEN"] = Some(s)]
            /\ gWrites' = gWrites \cup {<<s, "GCS_OAUTH_TOKEN">>}
       ELSE /\ gPc' = [gPc EXCEPT ![s] = "panicked"]
            /\ UNCHANGED <<gEnv, gWrites>>
    /\ UNCHANGED <<gAttempts, gPrivate, gSaw>>

\* the second IndexedReader::from_url(reads_url)
SharedOpenSecond(s, ok) ==
    /\ SharedOpen(s, ok, "open2", "ca")
    /\ UNCHANGED <<gAttempts, gPrivate, gEnv, gWrites>>

\* local_guess_curl_ca_bundle(): the test of CURL_CA_BUNDLE and of the file
SharedCaCheck(s, fileExists) ==
    /\ gPc[s] = "ca"
    /\ gPc' = [gPc EXCEPT ![s] = IF gEnv["CURL_CA_BUNDLE"] = None /\ fileExists
                                 THEN "ca_set" ELSE "open3"]
    /\ UNCHANGED <<gAttempts, gPrivate, gEnv, gWrites, gSaw>>

\* local_guess_curl_ca_bundle(): std::env::set_var("CURL_CA_BUNDLE", ca_file)
SharedCaSet(s) ==
    /\ gPc[s] = "ca_set"
    /\ gPc' = [gPc EXCEPT ![s] = "open3"]
    /\ gEnv' = [gEnv EXCEPT !["CURL_CA_BUNDLE"] = Some(s)]
    /\ gWrites' = gWrites \cup {<<s, "CURL_CA_BUNDLE">>}
    /\ UNCHANGED <<gAttempts, gPrivate, gSaw>>

\* IndexedReader::from_url(reads_url)?: the last open
SharedOpenThird(s, ok) ==
    /\ SharedOpen(s, ok, "open3", "failed")
    /\ UNCHANGED <<gAttempts, gPrivate, gEnv, gWrites>>

\* backoff::retry after the Err of open_bam: another run, or the panic
SharedBackoff(s) ==
    /\ gPc[s] = "failed"
    /\ gAttempts' = [gAttempts EXCEPT ![s] = @ + 1]
    /\ gPc' = [gPc EXCEPT ![s] = IF gAttempts[s] + 1 >= MaxAttempts
                                 THEN "panicked" ELSE "start"]
    /\ UNCHANGED <<gPrivate, gEnv, gWrites, gSaw>>

(***************************************************************************)
(* stage.rs: stage_data_from_one_file inside backoff::retry, one locus per  *)
(* step.                                                                    *)
(***************************************************************************)
\* The iteration orders of the loci sets of a task: one or two loci.
RetryLoci ==
    {o \in SeqsUpTo(Loci, 2) : o # <<>> /\ \A i, j \in DOMAIN o : i # j => o[i] # o[j]}

RetryIdle ==
    /\ rSrc = None /\ rLoci = <<>> /\ rPc = "none" /\ rTodo = <<>> /\ rDf = <<>>
    /\ rAttempts = 0 /\ rPartial = FALSE /\ rRet = None

\* The task of one source of par_iter(), before the first run of its closure.
RetryInit ==
    /\ rSrc \in {Some(s) : s \in SourceIds}
    /\ rLoci \in RetryLoci
    /\ rPc = "start" /\ rTodo = <<>> /\ rDf = <<>>
    /\ rAttempts = 0 /\ rPartial = FALSE /\ rRet = None

\* A run of the closure that keeps the rows of the run before it.
RetryOpenKeepRows(opened) ==
    /\ rPc = "start"
    /\ rPc' = CASE opened = "ok" -> "extract" [] opened = "err" -> "failed"
                [] OTHER -> "panicked"
    /\ rTodo' = IF opened = "ok" THEN rLoci ELSE rTodo
    /\ UNCHANGED <<rSrc, rLoci, rDf, rAttempts, rPartial, rRet>>

\* open_bam(reads_url, cache_path)?; let mut outer_df = DataFrame::default();
RetryOpen(opened) ==
    /\ rPc = "start"
    /\ rPc' = CASE opened = "ok" -> "extract" [] opened = "err" -> "failed"
                [] OTHER -> "panicked"
    /\ rTodo' = IF opened = "ok" THEN rLoci ELSE rTodo
    /\ rDf' = IF opened = "ok" THEN <<>> ELSE rDf
    /\ UNCHANGED <<rSrc, rLoci, rAttempts, rPartial, rRet>>

\* One turn of the loop over loci: extract_reads(..)?, outer_df.vstack_mut(&df)
RetryExtract(ok) ==
    /\ rPc = "extract"
    /\ rTodo # <<>>
    /\ IF ok
       THEN /\ rDf' = rDf \o ExtractReads(rSrc[1], "cohort", Head(rTodo)[1], Head(rTodo)[2],
                                          Head(rTodo)[3])
            /\ rTodo' = Tail(rTodo)
            /\ UNCHANGED <<rPc, rPartial>>
       ELSE /\ rPc' = "failed"
            /\ rPartial' = (rPartial \/ rDf # <<>>)
            /\ UNCHANGED <<rTodo, rDf>>
    /\ UNCHANGED <<rSrc, rLoci, rAttempts, rRet>>

\* outer_df.align_chunks(); Ok(outer_df): backoff::retry returns the table
RetryFinish ==
    /\ rPc = "extract"
    /\ rTodo = <<>>
    /\ rPc' = "done"
    /\ rRet' = Some(rDf)
    /\ UNCHANGED <<rSrc, rLoci, rTodo, rDf, rAttempts, rPartial>>

\* backoff::retry after an Err of the closure: another run, or the panic
RetryBackoff ==
    /\ rPc = "failed"
    /\ rAttempts' = rAttempts + 1
    /\ rPc' = IF rAttempts + 1 >= MaxAttempts THEN "panicked" ELSE "start"
    /\ UNCHANGED <<rSrc, rLoci, rTodo, rDf, rPartial, rRet>>

InitKey == KeyInit /\ StageInit /\ CacheIdle /\ SessInit /\ OpenIdle /\ ExIdle /\ PassIdle /\ LabelIdle /\ ShouldIdle /\ SharedIdle /\ RetryIdle

NextKey == KeyCompute /\ UNCHANGED <<stageVars, cacheVars, sessVars, openVars, exVars, passVars, labelVars, shouldVars, sharedVars, retryVars>>

\* The cache-key functions on every input of the bounds.
SpecKey == InitKey /\ [][NextKey]_vars

InitStage == KeyIdle /\ StageInit /\ CacheIdle /\ SessInit /\ OpenIdle /\ ExIdle /\ PassIdle /\ LabelIdle /\ ShouldIdle /\ SharedIdle /\ RetryIdle

NextBatch ==
    \/ \E order \in Orders, loci \in LociSeqs, use_cache \in BOOLEAN :
          StageData(order, loci, use_cache, 1) /\ UNCHANGED <<keyVars, cacheVars, sessVars, openVars, exVars, passVars, labelVars, shouldVars, sharedVars, retryVars>>
    \/ \E s \in SourceIds, opened \in OpenOutcomes, extract \in BOOLEAN :
          TaskAttempt(s, opened, extract) /\ UNCHANGED <<keyVars, cacheVars, sessVars, openVars, exVars, passVars, labelVars, shouldVars, sharedVars, retryVars>>
    \/ StagePanic /\ UNCHANGED <<keyVars, cacheVars, sessVars, openVars, exVars, passVars, labelVars, shouldVars, sharedVars, retryVars>>
    \/ StageCollect /\ UNCHANGED <<keyVars, cacheVars, sessVars, openVars, exVars, passVars, labelVars, shouldVars, sharedVars, retryVars>>
    \/ \E label \in ChunkLabels, createOk, finishOk \in BOOLEAN :
          WriteToDisk(label, createOk, finishOk) /\ UNCHANGED <<keyVars, cacheVars, sessVars, openVars, exVars, passVars, labelVars, shouldVars, sharedVars, retryVars>>

\* One stage_data call.
SpecBatch == InitStage /\ [][NextBatch]_vars

NextStage ==
    \/ \E order \in Orders, loci \in LociSeqs, use_cache \in BOOLEAN :
          StageData(order, loci, use_cache, MaxCalls) /\ UNCHANGED <<keyVars, cacheVars, sessVars, openVars, exVars, passVars, labelVars, shouldVars, sharedVars, retryVars>>
    \/ \E s \in SourceIds, opened \in OpenOutcomes, extract \in BOOLEAN :
          TaskAttempt(s, opened, extract) /\ UNCHANGED <<keyVars, cacheVars, sessVars, openVars, exVars, passVars, labelVars, shouldVars, sharedVars, retryVars>>
    \/ StagePanic /\ UNCHANGED <<keyVars, cacheVars, sessVars, openVars, exVars, passVars, labelVars, shouldVars, sharedVars, retryVars>>
    \/ StageCollect /\ UNCHANGED <<keyVars, cacheVars, sessVars, openVars, exVars, passVars, labelVars, shouldVars, sharedVars, retryVars>>
    \/ \E label \in ChunkLabels, createOk, finishOk \in BOOLEAN :
          WriteToDisk(label, createOk, finishOk) /\ UNCHANGED <<keyVars, cacheVars, sessVars, openVars, exVars, passVars, labelVars, shouldVars, sharedVars, retryVars>>

\* stage_data, called up to MaxCalls times.
SpecStage == InitStage /\ [][NextStage]_vars

InitCache == KeyIdle /\ StageInit /\ CacheInit /\ SessInit /\ OpenIdle /\ ExIdle /\ PassIdle /\ LabelIdle /\ ShouldIdle /\ SharedIdle /\ RetryIdle

NextCache ==
    \/ \E locus \in RequestLoci :
          GetReadsWithCache(locus, cCohort) /\ UNCHANGED <<keyVars, stageVars, sessVars, openVars, exVars, passVars, labelVars, shouldVars, sharedVars, retryVars>>
    \/ \E authOk, lsOk, cpOk \in BOOLEAN :
          CacheDownload(authOk, lsOk, cpOk) /\ UNCHANGED <<keyVars, stageVars, sessVars, openVars, exVars, passVars, labelVars, shouldVars, sharedVars, retryVars>>
    \/ \E ok \in SUBSET SourceIds :
          CacheFetch(ok) /\ UNCHANGED <<keyVars, stageVars, sessVars, openVars, exVars, passVars, labelVars, shouldVars, sharedVars, retryVars>>
    \/ \E createOk, finishOk \in BOOLEAN :
          CacheWrite(createOk, finishOk) /\ UNCHANGED <<keyVars, stageVars, sessVars, openVars, exVars, passVars, labelVars, shouldVars, sharedVars, retryVars>>
    \/ \E authOk, cpOk \in BOOLEAN :
          CacheUpload(authOk, cpOk) /\ UNCHANGED <<keyVars, stageVars, sessVars, openVars, exVars, passVars, labelVars, shouldVars, sharedVars, retryVars>>
    \/ \E path \in DOMAIN cLocal :
          CacheEvict(path) /\ UNCHANGED <<keyVars, stageVars, sessVars, openVars, exVars, passVars, labelVars, shouldVars, sharedVars, retryVars>>

\* The reads requests of one session, up to MaxRequests of them.
SpecCache == InitCache /\ [][NextCache]_vars

\* Session::new(cache_base_uri) with no reads attached.
SessionNew ==
    /\ cBase \in {None, Some(<<"g", "s", ":", "b", "/">>)}
    /\ cCohort = <<>>
    /\ cLocal = <<>>
    /\ cRemote = <<>>
    /\ cReq = None
    /\ cPc = "idle"
    /\ cFetched = <<>>
    /\ cLog = <<>>
    /\ cResp = NoResp
    /\ cHist = <<>>
    /\ cCalls = 0

\* The argument lists of attach_loci and attach_variants.
LocusLists ==
    {<<l>> : l \in LocusStrings \ {<<"c", "1">>}}
    \cup {<<<<"c", "1", ":", "1", "0", "-", "2", "0">>, <<"c", "1">>>>}

\* The locus strings of get_locus_variants.
QueryStrings == LocusStrings \ {<<"c", "1">>, <<"c", "1", ":", "1", ",", "5", "0", "0">>}

\* What the environment does to one turn of stage(): a remote read that
\* succeeds when the object is there, or a failing read followed by the
\* variant files in ok and the remote write.
StageEnvs ==
    {[readOk |-> TRUE, ok |-> {1, 2}, writeOk |-> TRUE]}
    \cup {[readOk |-> FALSE, ok |-> o, writeOk |-> w] : o \in {{}, {1, 2}}, w \in BOOLEAN}

\* The same for get_locus_variants: the read of the staged object, the read
\* of the request object, the variant files and the remote write.
VariantEnvs ==
    {[readStagedOk |-> TRUE, readReqOk |-> TRUE, ok |-> {1, 2}, writeOk |-> TRUE],
     [readStagedOk |-> FALSE, readReqOk |-> TRUE, ok |-> {1, 2}, writeOk |-> TRUE]}
    \cup {[readStagedOk |-> FALSE, readReqOk |-> FALSE, ok |-> o, writeOk |-> w] :
             o \in {{}, {1, 2}}, w \in BOOLEAN}

\* The builds that differ on the strings: with and without overflow checks.
WrapChoices(strs) ==
    IF \E i \in DOMAIN strs : Cardinality(ParseTable[strs[i]]) > 1 THEN BOOLEAN ELSE {TRUE}

VariantFileLists == {<<1>>, <<2>>, <<1, 3>>}

InitSession == KeyIdle /\ StageInit /\ SessionNew /\ SessInit /\ OpenIdle /\ ExIdle /\ PassIdle /\ LabelIdle /\ ShouldIdle /\ SharedIdle /\ RetryIdle

NextSession ==
    \/ \E strs \in LocusLists : \E wrap \in WrapChoices(strs) :
          AttachLoci(strs, wrap) /\ UNCHANGED <<keyVars, stageVars, cacheVars, openVars, exVars, passVars, labelVars, shouldVars, sharedVars, retryVars>>
    \/ \E files \in VariantFileLists :
          AttachVariants(files) /\ UNCHANGED <<keyVars, stageVars, cacheVars, openVars, exVars, passVars, labelVars, shouldVars, sharedVars, retryVars>>
    \/ \E use_cache \in BOOLEAN, order \in Perms(sLoci) :
          Stage(use_cache, order) /\ UNCHANGED <<keyVars, stageVars, cacheVars, openVars, exVars, passVars, labelVars, shouldVars, sharedVars, retryVars>>
    \/ \E env \in StageEnvs :
          StageLocus(env.readOk, env.ok, env.writeOk)
          /\ UNCHANGED <<keyVars, stageVars, cacheVars, openVars, exVars, passVars, labelVars, shouldVars, sharedVars, retryVars>>
    \/ \E locus \in QueryStrings, env \in VariantEnvs :
       \E wrap \in WrapChoices(<<locus>>) :
          GetLocusVariants(locus, wrap, env.readStagedOk, env.readReqOk, env.ok,
                           env.writeOk)
          /\ UNCHANGED <<keyVars, stageVars, cacheVars, openVars, exVars, passVars, labelVars, shouldVars, sharedVars, retryVars>>
    \/ Reset /\ UNCHANGED <<keyVars, stageVars, openVars, exVars, passVars, labelVars, shouldVars, sharedVars, retryVars>>

\* The loci, variants and staged index of one session, up to MaxSessionOps
\* operations.
SpecSession == InitSession /\ [][NextSession]_vars

InitOpen == KeyIdle /\ StageInit /\ CacheIdle /\ SessInit /\ OpenInit /\ ExIdle /\ PassIdle /\ LabelIdle /\ ShouldIdle /\ SharedIdle /\ RetryIdle

NextOpen ==
    \/ \E s \in SourceIds, chdirOk, ok \in BOOLEAN :
          OpenFirst(s, chdirOk, ok) /\ UNCHANGED <<keyVars, stageVars, cacheVars, sessVars, exVars, passVars, labelVars, shouldVars, sharedVars, retryVars>>
    \/ \E s \in SourceIds, ok \in BOOLEAN :
          OpenAuthorize(s, ok) /\ UNCHANGED <<keyVars, stageVars, cacheVars, sessVars, exVars, passVars, labelVars, shouldVars, sharedVars, retryVars>>
    \/ \E s \in SourceIds, ok \in BOOLEAN :
          OpenSecond(s, ok) /\ UNCHANGED <<keyVars, stageVars, cacheVars, sessVars, exVars, passVars, labelVars, shouldVars, sharedVars, retryVars>>
    \/ \E s \in SourceIds :
          OpenTrustStore(s) /\ UNCHANGED <<keyVars, stageVars, cacheVars, sessVars, exVars, passVars, labelVars, shouldVars, sharedVars, retryVars>>
    \/ \E s \in SourceIds, ok \in BOOLEAN :
          OpenThird(s, ok) /\ UNCHANGED <<keyVars, stageVars, cacheVars, sessVars, exVars, passVars, labelVars, shouldVars, sharedVars, retryVars>>
    \/ \E s \in SourceIds, ok \in BOOLEAN :
          ExtractLoci(s, ok) /\ UNCHANGED <<keyVars, stageVars, cacheVars, sessVars, exVars, passVars, labelVars, shouldVars, sharedVars, retryVars>>
    \/ \E s \in SourceIds :
          Backoff(s) /\ UNCHANGED <<keyVars, stageVars, cacheVars, sessVars, exVars, passVars, labelVars, shouldVars, sharedVars, retryVars>>

\* The retried tasks of the sources, interleaved.
SpecOpen == InitOpen /\ [][NextOpen]_vars

\* The same with every task scheduled: a task that can take a step does.
SpecOpenFair == InitOpen /\ [][NextOpen]_vars /\ WF_vars(NextOpen)

InitExtract == KeyIdle /\ StageInit /\ CacheIdle /\ SessInit /\ OpenIdle /\ ExInit /\ PassIdle /\ LabelIdle /\ ShouldIdle /\ SharedIdle /\ RetryIdle

NextExtract ==
    \/ ReadRow /\ UNCHANGED <<keyVars, stageVars, cacheVars, sessVars, openVars, passVars, labelVars, shouldVars, sharedVars, retryVars>>
    \/ \E checked \in OverflowChecks :
          WalkStep(checked) /\ UNCHANGED <<keyVars, stageVars, cacheVars, sessVars, openVars, passVars, labelVars, shouldVars, sharedVars, retryVars>>

\* extract_reads on one record: every CIGAR string of the bounds and the
\* record of the repository's test.
SpecExtract == InitExtract /\ [][NextExtract]_vars

InitPass == KeyIdle /\ StageInit /\ CacheIdle /\ SessInit /\ OpenIdle /\ ExIdle /\ PassInit /\ LabelIdle /\ ShouldIdle /\ SharedIdle /\ RetryIdle

NextPass ==
    \/ \E item \in PassItems, checked \in BOOLEAN :
          PassRecord(item, checked) /\ UNCHANGED <<keyVars, stageVars, cacheVars, sessVars, openVars, exVars, labelVars, shouldVars, sharedVars, retryVars>>
    \/ PassFinish /\ UNCHANGED <<keyVars, stageVars, cacheVars, sessVars, openVars, exVars, labelVars, shouldVars, sharedVars, retryVars>>

SpecPass == InitPass /\ [][NextPass]_vars

InitLabel == KeyIdle /\ StageInit /\ CacheIdle /\ SessInit /\ OpenIdle /\ ExIdle /\ PassIdle /\ LabelInit /\ ShouldIdle /\ SharedIdle /\ RetryIdle

NextLabel ==
    \E parsed \in {LocusErr, LocusPanic} \cup
                  {LocusOk(c, start, stop) : c \in SeqsUpTo(ContigChars, MaxContigLen),
                                             start, stop \in 0..MaxCoord} :
       LabelRoundTrip(parsed) /\ UNCHANGED <<keyVars, stageVars, cacheVars, sessVars, openVars, exVars, passVars, shouldVars, sharedVars, retryVars>>

SpecLabel == InitLabel /\ [][NextLabel]_vars

InitShould == KeyIdle /\ StageInit /\ CacheIdle /\ SessInit /\ OpenIdle /\ ExIdle /\ PassIdle /\ LabelIdle /\ ShouldInit /\ SharedIdle /\ RetryIdle

NextShould ==
    ShouldCall /\ UNCHANGED <<keyVars, stageVars, cacheVars, sessVars, openVars, exVars, passVars, labelVars, sharedVars, retryVars>>

SpecShould == InitShould /\ [][NextShould]_vars

InitShared == KeyIdle /\ StageInit /\ CacheIdle /\ SessInit /\ OpenIdle /\ ExIdle /\ PassIdle /\ LabelIdle /\ ShouldIdle /\ SharedInit /\ RetryIdle

NextShared ==
    \/ \E s \in SourceIds, ok \in BOOLEAN :
          SharedChdir(s, ok) /\ UNCHANGED <<keyVars, stageVars, cacheVars, sessVars, openVars, exVars, passVars, labelVars, shouldVars, retryVars>>
    \/ \E s \in SourceIds, ok \in BOOLEAN :
          SharedOpenFirst(s, ok) /\ UNCHANGED <<keyVars, stageVars, cacheVars, sessVars, openVars, exVars, passVars, labelVars, shouldVars, retryVars>>
    \/ \E s \in SourceIds, ok \in BOOLEAN :
          SharedAuthorize(s, ok) /\ UNCHANGED <<keyVars, stageVars, cacheVars, sessVars, openVars, exVars, passVars, labelVars, shouldVars, retryVars>>
    \/ \E s \in SourceIds, ok \in BOOLEAN :
          SharedOpenSecond(s, ok) /\ UNCHANGED <<keyVars, stageVars, cacheVars, sessVars, openVars, exVars, passVars, labelVars, shouldVars, retryVars>>
    \/ \E s \in SourceIds, fileExists \in BOOLEAN :
          SharedCaCheck(s, fileExists) /\ UNCHANGED <<keyVars, stageVars, cacheVars, sessVars, openVars, exVars, passVars, labelVars, shouldVars, retryVars>>
    \/ \E s \in SourceIds :
          SharedCaSet(s) /\ UNCHANGED <<keyVars, stageVars, cacheVars, sessVars, openVars, exVars, passVars, labelVars, shouldVars, retryVars>>
    \/ \E s \in SourceIds, ok \in BOOLEAN :
          SharedOpenThird(s, ok) /\ UNCHANGED <<keyVars, stageVars, cacheVars, sessVars, openVars, exVars, passVars, labelVars, shouldVars, retryVars>>
    \/ \E s \in SourceIds :
          SharedBackoff(s) /\ UNCHANGED <<keyVars, stageVars, cacheVars, sessVars, openVars, exVars, passVars, labelVars, shouldVars, retryVars>>

SpecShared == InitShared /\ [][NextShared]_vars

InitRetry == KeyIdle /\ StageInit /\ CacheIdle /\ SessInit /\ OpenIdle /\ ExIdle /\ PassIdle /\ LabelIdle /\ ShouldIdle /\ SharedIdle /\ RetryInit

NextRetry ==
    \/ \E opened \in OpenOutcomes :
          RetryOpen(opened) /\ UNCHANGED <<keyVars, stageVars, cacheVars, sessVars, openVars, exVars, passVars, labelVars, shouldVars, sharedVars>>
    \/ \E ok \in BOOLEAN :
          RetryExtract(ok) /\ UNCHANGED <<keyVars, stageVars, cacheVars, sessVars, openVars, exVars, passVars, labelVars, shouldVars, sharedVars>>
    \/ RetryFinish /\ UNCHANGED <<keyVars, stageVars, cacheVars, sessVars, openVars, exVars, passVars, labelVars, shouldVars, sharedVars>>
    \/ RetryBackoff /\ UNCHANGED <<keyVars, stageVars, cacheVars, sessVars, openVars, exVars, passVars, labelVars, shouldVars, sharedVars>>

SpecRetry == InitRetry /\ [][NextRetry]_vars


(***************************************************************************)
(* Properties of the cache key.                                            *)
(***************************************************************************)
\* C9: for any locus and any two orderings of the same source identifiers
\* the local cache file and the remote cache URI are the same.
C9_KeyIgnoresSourceOrder ==
    kOut # None =>
        /\ kOut[1].fileA = kOut[1].fileB
        /\ kOut[1].uriA = kOut[1].uriB

\* Both functions were applied to two different orderings of at least two
\* distinct sources, with a cache base configured.
C9_Witness ==
    /\ kOut # None
    /\ kIn[1].pathsA # kIn[1].pathsB
    /\ kIn[1].base # None
    /\ kOut[1].uriA # None
    /\ Cardinality(Range(kIn[1].pathsA)) >= 2

(***************************************************************************)
(* Properties of stage_data.                                               *)
(***************************************************************************)
\* The stage_data call has returned or panicked.
StageReturned == stArgs # None /\ stPc = "idle"

\* The retries of source s were exhausted.
Exhausted(s) == task[s] = "panicked" /\ attempts[s] >= MaxAttempts

\* The rows of the file written for a chunk label that come from source s.
RowsOfSource(rows, s) == SelectSeq(rows, LAMBDA r : r.bam_path = s)

\* The position of source s in the iteration order.
IndexIn(order, s) == CHOOSE i \in DOMAIN order : order[i] = s

\* C1: a source whose retries are exhausted does not abort the batch: the
\* batch returns a table that holds the rows of every source that succeeded.
C1_PartialFailureTolerated ==
    ( /\ StageReturned
      /\ \E s \in Range(stArgs[1].order) : Exhausted(s)
      /\ \E s \in Range(stArgs[1].order) : task[s] = "ok"
      /\ \A s \in Range(stArgs[1].order) : Exhausted(s) \/ task[s] = "ok" )
    => /\ stResult.status = "ok"
       /\ \A l \in DOMAIN stResult.locus_to_file :
             \A s \in Range(stArgs[1].order) :
                task[s] = "ok" =>
                   RowsOfSource(stDisk[stResult.locus_to_file[l]].rows, s)
                     = FilterChunk(taskDf[s], ChunkLabel(l[1], l[2], l[3]))

\* C2: the rows of the merged table are in the iteration order of the
\* sources, each source's rows kept together and in their own order,
\* whatever the order in which the tasks finished.
C2_MergeInSourceOrder ==
    (StageReturned /\ stResult.status = "ok") =>
        \A l \in DOMAIN stResult.locus_to_file :
            LET file == stDisk[stResult.locus_to_file[l]]
                order == stArgs[1].order
            IN  file.complete =>
                  /\ \A i, j \in DOMAIN file.rows :
                        i < j => IndexIn(order, file.rows[i].bam_path)
                                   <= IndexIn(order, file.rows[j].bam_path)
                  /\ \A s \in Range(order) :
                        RowsOfSource(file.rows, s)
                          = FilterChunk(taskDf[s], ChunkLabel(l[1], l[2], l[3]))

\* A batch returned a merged table with rows of two sources whose tasks
\* finished in another order than the iteration order.
C2_Witness ==
    /\ StageReturned
    /\ stResult.status = "ok"
    /\ finished # stArgs[1].order
    /\ \E l \in DOMAIN stResult.locus_to_file :
          LET file == stDisk[stResult.locus_to_file[l]]
          IN  /\ file.complete
              /\ Cardinality({file.rows[i].bam_path : i \in DOMAIN file.rows}) >= 2

\* C4: a second stage_data call for the same sources and loci, made with
\* use_cache while the files of the first call are in the cache directory,
\* reads nothing from the sources.
C4_SecondStageServedFromCache ==
    ( /\ stArgs # None
      /\ stPrev # None
      /\ stPrev[1].ok
      /\ stArgs[1].use_cache
      /\ Range(stArgs[1].order) = stPrev[1].sources
      /\ Range(stArgs[1].loci) = stPrev[1].loci
      /\ \A l \in stPrev[1].loci :
            LET f == StageFileName(CachePath, l[1], l[2], l[3])
            IN  f \in DOMAIN stDisk /\ stDisk[f].complete )
    => ~stFetched

\* C8: a locus whose cache file was not written completely is not in the
\* map stage_data returns.
C8_FailedWriteNotReported ==
    \A l \in DOMAIN stResult.locus_to_file :
        \A w \in stWritten : w.locus = l => w.ok

\* C10: tables cached for one locus from different sets of sources are in
\* different files.
C10_PathsDistinguishSources ==
    \A w1, w2 \in stWritten :
        (w1.locus = w2.locus /\ w1.sources # w2.sources) => w1.path # w2.path

(***************************************************************************)
(* Properties of the cached reads request.                                 *)
(***************************************************************************)
Has(log, e) == \E i \in DOMAIN log : log[i] = e

Before(log, e, i) == \E j \in 1..(i - 1) : log[j] = e

ServedFromCache == Has(cLog, "local_hit") \/ Has(cLog, "recheck_hit")

\* C3: a reads request served from the cache returns the same set of rows as
\* the request that fetched and cached them.
C3_CachedRowsEqualFetched ==
    (/\ cPc = "idle"
     /\ cReq # None
     /\ cResp.status = "ok"
     /\ ServedFromCache
     /\ ReqPath \in DOMAIN cHist)
    => Range(cResp.rows) = Range(cHist[ReqPath])

\* C5: the local file is checked first; a download from the mirror is
\* attempted only after the local check missed, and is followed by a second
\* check; the sources are read only after the local check has missed and,
\* where a mirror is configured, the second look after the download has missed too.
\* A call answered from the cache reads no source.
C5_ReadPathOrder ==
    /\ cLog # <<>> => cLog[1] \in {"local_hit", "local_miss"}
    /\ \A i \in DOMAIN cLog :
         /\ cLog[i] = "download" => Before(cLog, "local_miss", i)
         /\ cLog[i] \in {"recheck_hit", "recheck_miss"} => Before(cLog, "download", i)
         /\ cLog[i] = "fetch" =>
               /\ Before(cLog, "local_miss", i)
               /\ cBase # None => Before(cLog, "recheck_miss", i)
    /\ ServedFromCache => ~Has(cLog, "fetch")
    /\ cPc = "fetch" =>
          /\ Has(cLog, "local_miss")
          /\ cBase # None => Has(cLog, "recheck_miss")

\* A call with a mirror configured read the sources, after both checks missed.
C5_Witness ==
    /\ cBase # None
    /\ Has(cLog, "download")
    /\ Has(cLog, "recheck_miss")
    /\ Has(cLog, "fetch")

\* C6: on a fresh fetch an upload to the mirror is attempted only after the
\* local file has been written, and never after the local write failed.
C6_LocalWriteBeforeUpload ==
    /\ \A i \in DOMAIN cLog :
         cLog[i] = "upload" =>
            /\ Before(cLog, "fetch", i)
            /\ Before(cLog, "write_ok", i)
    /\ Has(cLog, "write_err") => ~Has(cLog, "upload") /\ cPc # "upload"
    /\ cPc = "upload" =>
          /\ ReqPath \in DOMAIN cLocal
          /\ cLocal[ReqPath] = [complete |-> TRUE, rows |-> cFetched]

\* An upload was attempted after the fetched table was written locally.
C6_Witness ==
    /\ Has(cLog, "write_ok")
    /\ Has(cLog, "upload")
    /\ ReqUri[1] \in DOMAIN cRemote

\* C7: a failing mirror step (download, upload or the credential step they
\* begin with) is only logged; a call whose fetch and local write did not
\* fail still returns its table.
C7_MirrorFailureNotFatal ==
    (/\ cPc = "idle"
     /\ \/ Has(cLog, "auth_panic")
        \/ Has(cLog, "download_err")
        \/ Has(cLog, "upload_err")
     /\ ~Has(cLog, "fetch_err")
     /\ ~Has(cLog, "write_err"))
    => cResp.status = "ok"

(***************************************************************************)
(* Properties of the staged index and the loci of the session.             *)
(***************************************************************************)
\* The non-empty query ranges the lookup is examined on.
QueryRanges ==
    {<<c, a, b>> : c \in Contigs, a \in {10, 12, 15}, b \in {12, 15, 20, 25}}

Covers(e, q) == e.start <= q[2] /\ e.end >= q[3]

\* C11: for a query range (start < stop) the lookup returns an entry exactly
\* when an interval stored for the contig has start <= query start and
\* end >= query stop; the entry returned is stored for that contig and
\* contains the query.
C11_FindCoveringIffContained ==
    \A q \in QueryRanges :
       q[2] < q[3] =>
          LET r == FindCoveringVariantStagedFile(staged_tree, q[1], q[2], q[3])
              stored == IF q[1] \in DOMAIN staged_tree THEN staged_tree[q[1]] ELSE {}
          IN  /\ r.status \in {"some", "none"}
              /\ r.status = "some" <=> \E e \in stored : Covers(e, q)
              /\ r.status = "some" =>
                    /\ [start |-> r.start, end |-> r.end, file |-> r.file] \in stored
                    /\ r.start <= q[2] /\ r.end >= q[3]

\* get_locus_variants looked its range up in an index it then left alone:
\* the lookup returned a containing entry although the contig also holds an
\* entry that overlaps the query without containing it.
C11_Witness ==
    /\ sResp.op = "get_locus_variants"
    /\ sResp.served \in {"staged", "request"}
    /\ sResp.start < sResp.stop
    /\ FindCoveringVariantStagedFile(staged_tree, sResp.chr, sResp.start,
                                     sResp.stop).status = "some"
    /\ \E e \in staged_tree[sResp.chr] :
          /\ ~Covers(e, <<sResp.chr, sResp.start, sResp.stop>>)
          /\ e.start < sResp.stop /\ e.end > sResp.start

\* C12: a request answered from a staged or cached table returns no row
\* outside the requested half-open range [start, stop).
C12_ServedRowsInsideQuery ==
    (/\ sResp.op = "get_locus_variants"
     /\ sResp.status = "ok"
     /\ sResp.served \in {"staged", "request"})
    => \A i \in DOMAIN sResp.rows :
          sResp.rows[i].position >= sResp.start /\ sResp.rows[i].position < sResp.stop

IsResetStep == sOps' = sOps + 1 /\ sResp'.op = "reset"

\* C13: every operation other than reset keeps every entry of the staged
\* index, its range and its file; reset leaves the index empty.
C13_IndexGrowsUntilReset ==
    [][IF IsResetStep
       THEN staged_tree' = <<>>
       ELSE \A chr \in DOMAIN staged_tree :
               chr \in DOMAIN staged_tree' /\ staged_tree[chr] \subseteq staged_tree'[chr]]_vars

\* A fresh get_locus_variants added a range to a contig that had one.
C13_Witness ==
    /\ sResp.op = "get_locus_variants"
    /\ sResp.served = "fresh"
    /\ \E chr \in DOMAIN staged_tree : Cardinality(staged_tree[chr]) >= 2

\* C14: after a get_locus that fetched fresh and succeeded, the staged index
\* holds an entry covering the requested locus.
C14_FreshGetLocusUpdatesIndex ==
    (/\ cPc = "idle"
     /\ cReq # None
     /\ cResp.status = "ok"
     /\ Has(cLog, "fetch"))
    => FindCoveringVariantStagedFile(staged_tree, cReq[1].chr, cReq[1].start,
                                     cReq[1].stop).status = "some"

\* C15: every locus parse_locus returned, hence every attached locus and
\* every range of the staged index, has start < stop.
C15_LociNormalized ==
    /\ \A l \in sLoci : l[2] < l[3]
    /\ \A chr \in DOMAIN staged_tree : \A e \in staged_tree[chr] : e.start < e.end
    /\ (sResp.op = "get_locus_variants" /\ sResp.status = "ok") => sResp.start < sResp.stop

(***************************************************************************)
(* Properties of open_bam and of the retry loop.                           *)
(***************************************************************************)
\* The steps of a complete open_bam call, in order.
OpenSteps == <<"open1", "auth", "open2", "ca", "open3">>

OpenAttempts(log) == {i \in DOMAIN log : log[i].step \in {"open1", "open2", "open3"}}

\* C16: open_bam makes at most three open attempts, in this order: a plain
\* open, the credential refresh and a second open, the fallback trust store
\* and a last open; a successful attempt returns the handle with no later
\* step, and the error is returned only after the third attempt failed.
C16_OpenAttemptsInOrder ==
    \A s \in SourceIds :
       LET log == oLog[s]
       IN  /\ Len(log) <= Len(OpenSteps)
           /\ \A i \in DOMAIN log : log[i].step = OpenSteps[i]
           /\ Cardinality(OpenAttempts(log)) <= 3
           /\ \A i \in OpenAttempts(log) : log[i].ok => i = Len(log)
           /\ oRet[s] = "ok" <=>
                 (log # <<>> /\ Len(log) \in OpenAttempts(log) /\ log[Len(log)].ok)
           /\ oRet[s] = "err" <=>
                 (/\ Len(log) = Len(OpenSteps)
                  /\ \A i \in OpenAttempts(log) : ~log[i].ok)

\* One call returned the handle from its third attempt and another returned
\* the error.
C16_Witness ==
    /\ \E s \in SourceIds :
          oRet[s] = "ok" /\ Len(oLog[s]) = Len(OpenSteps)
    /\ \E s \in SourceIds : oRet[s] = "err"

\* C17: the retried task of every source stops: it returns its table or ends
\* with a failure; no task retries forever.
C17_RetryLoopStops ==
    \A s \in SourceIds : <>[](oPc[s] \in {"done", "panicked"})

\* A task gave up after MaxAttempts failed runs while another returned.
C17_Witness ==
    /\ \E s \in SourceIds : oPc[s] = "panicked" /\ oAttempts[s] = MaxAttempts
    /\ \E s \in SourceIds : oPc[s] = "done" /\ oAttempts[s] > 0

(***************************************************************************)
(* Properties of the rows of one record.                                   *)
(***************************************************************************)
WalkDone == xSt # None /\ xIdx = Len(xRec[1].cigar)

Column(rows, f(_)) == [i \in DOMAIN rows |-> f(rows[i])]

TypeOf(row) == row.element_type
StartOf(row) == row.reference_start
EndOf(row) == row.reference_end
SequenceOf(row) == row.sequence

\* C18: the lengths of the reference-consuming operations of a record
\* (Match, Equal, Diff, Del, RefSkip) add up to reference_end minus
\* reference_start of its READ row.
C18_ReadRowSpanIsReferenceLength ==
    xSt # None =>
       RefLen(xRec[1].cigar) = xSt[1].rows[1].reference_end - xSt[1].rows[1].reference_start

RECURSIVE ElementTypesOf(_)
\* The element types the operations of a CIGAR string give rise to, in order.
ElementTypesOf(cigar) ==
    IF cigar = <<>> THEN <<>>
    ELSE LET op == Head(cigar)[1]
             len == Head(cigar)[2]
         IN  (CASE op = "I" -> <<2>>
                [] op = "D" -> <<3>>
                [] op = "X" -> <<1>>
                [] op = "S" -> [i \in 1..len |-> 4]
                [] OTHER -> <<>>) \o ElementTypesOf(Tail(cigar))

\* C19: the READ row of a record comes first, has an empty sequence and
\* spans the alignment from its first to its last reference position; the
\* element rows follow in the order of the CIGAR operations; the record of
\* the repository's test gives exactly 14 rows with element types
\* 0,4,4,4,1,1,1,3,2,1,1,4,4,4.
C19_ReadRowFirstThenElementsInOrder ==
    xSt # None =>
       LET rec == xRec[1]
           st  == xSt[1]
           rows == st.rows
       IN  /\ rows[1].element_type = 0
           /\ rows[1].sequence = <<>>
           /\ rows[1].reference_start = rec.pos + 1
           /\ Column(rows, TypeOf) = <<0>> \o ElementTypesOf(SubSeq(rec.cigar, 1, xIdx))
           /\ (WalkDone /\ RefLen(rec.cigar) > 0) => rows[1].reference_end = st.ref_pos - 1
           /\ (WalkDone /\ rec = ReferenceRecord) =>
                 /\ Len(rows) = 14
                 /\ Column(rows, TypeOf) = ReferenceElementTypes
                 /\ Column(rows, StartOf) = ReferenceStarts
                 /\ Column(rows, EndOf) = ReferenceEnds
                 /\ Column(rows, SequenceOf) = ReferenceSequences
                 /\ \A i \in DOMAIN rows : ~rows[i].is_forward /\ rows[i].query_name = "1"

\* The record of the test has been walked to its end.
C19_Witness ==
    /\ WalkDone
    /\ xRec[1] = ReferenceRecord
    /\ Len(xSt[1].rows) = 14

\* The last step of the walk was an insertion.
AfterInsertion == xPrev # None /\ xRec[1].cigar[xIdx][1] = "I"

\* C20: an insertion of length L adds exactly one INSERTION row, anchored at
\* ref_pos - 1, whose sequence is the L read bases from read_pos on (0-based
\* slice [read_pos - 1, read_pos - 1 + L)); read_pos advances by L and
\* ref_pos is unchanged; also at the very start and very end of the read.
C20_InsertionRow ==
    AfterInsertion =>
       LET rec == xRec[1]
           L == rec.cigar[xIdx][2]
           before == xPrev[1]
           after == xSt[1]
           row == after.rows[Len(after.rows)]
       IN  /\ Len(after.rows) = Len(before.rows) + 1
           /\ SubSeq(after.rows, 1, Len(before.rows)) = before.rows
           /\ row.element_type = 2
           /\ row.reference_start = before.ref_pos - 1
           /\ Len(row.sequence) = L
           /\ \A i \in 1..L : row.sequence[i] = rec.seq[before.read_pos - 1 + i]
           /\ after.read_pos = before.read_pos + L
           /\ after.ref_pos = before.ref_pos

\* A read that starts and ends with an insertion, walked through its last one.
C20_Witness ==
    /\ AfterInsertion
    /\ WalkDone
    /\ Len(xRec[1].cigar) = 3
    /\ xRec[1].cigar[1] = <<"I", 2>>
    /\ xRec[1].cigar[3][2] = 2
    /\ xSt[1].read_pos = Len(xRec[1].seq) + 1

(***************************************************************************)
(* Properties of the mismatch and soft-clip rows and of the coordinates.    *)
(***************************************************************************)
\* The last step of the walk was an operation of kind op.
AfterOp(op) == xPrev # None /\ xIdx >= 1 /\ xRec[1].cigar[xIdx][1] = op

\* The i-th row the last step added.
AddedRow(i) == xSt[1].rows[Len(xPrev[1].rows) + i]

\* C21: a mismatch operation of length L adds L DIFF rows, one per consumed
\* base, each of reference width 1 with the read base at that offset;
\* ref_pos and read_pos advance by one per row.
C21_DiffRowPerBase ==
    AfterOp("X") =>
       LET rec == xRec[1]
           L == rec.cigar[xIdx][2]
           before == xPrev[1]
           after == xSt[1]
       IN  /\ Len(after.rows) = Len(before.rows) + L
           /\ \A i \in 1..L :
                 /\ AddedRow(i).element_type = 1
                 /\ AddedRow(i).reference_start = before.ref_pos + i - 1
                 /\ AddedRow(i).reference_end = before.ref_pos + i
                 /\ AddedRow(i).sequence = <<rec.seq[before.read_pos + i - 1]>>
           /\ after.ref_pos = before.ref_pos + L
           /\ after.read_pos = before.read_pos + L

\* The walk stopped in a panic at a soft clip.
PanickedAtSoftClip ==
    xPanic /\ xIdx < Len(xRec[1].cigar) /\ xRec[1].cigar[xIdx + 1][1] = "S"

\* C22: a soft clip of length L adds L SOFTCLIP rows, one per clipped base
\* with that base as sequence; as first operation its first base is
\* anchored at ref_pos - L, otherwise at ref_pos, and positions increment;
\* read_pos advances by L and ref_pos is unchanged.
C22_SoftClipRows ==
    /\ ~PanickedAtSoftClip
    /\ AfterOp("S") =>
          LET rec == xRec[1]
              L == rec.cigar[xIdx][2]
              before == xPrev[1]
              after == xSt[1]
              anchor == IF xIdx = 1 THEN before.ref_pos - L ELSE before.ref_pos
          IN  /\ Len(after.rows) = Len(before.rows) + L
              /\ \A i \in 1..L :
                    /\ AddedRow(i).element_type = 4
                    /\ AddedRow(i).reference_start = anchor + i - 1
                    /\ AddedRow(i).sequence = <<rec.seq[before.read_pos + i - 1]>>
              /\ after.read_pos = before.read_pos + L
              /\ after.ref_pos = before.ref_pos

IsClip(op) == op \in {"H", "S"}

\* The idx-th operation comes before the first aligned base of the record.
BeforeFirstAligned(cigar, idx) ==
    /\ \A j \in 1..(idx - 1) : cigar[j][1] = "H"
    /\ \E j \in (idx + 1)..Len(cigar) : ~IsClip(cigar[j][1]) /\ cigar[j][1] # "P"

\* C23: the bases of a soft clip that precedes the first aligned base are
\* positioned at reference_start - L .. reference_start, also when a hard
\* clip comes before the soft clip; the bases of a soft clip elsewhere are
\* positioned from the reference cursor on.
C23_LeadingClipBeforeAlignment ==
    (AfterOp("S") /\ xRec[1].pos + 1 >= xRec[1].cigar[xIdx][2]) =>
       LET rec == xRec[1]
           L == rec.cigar[xIdx][2]
           reference_start == xSt[1].rows[1].reference_start
       IN  /\ BeforeFirstAligned(rec.cigar, xIdx) =>
                 \A i \in 1..L : AddedRow(i).reference_start = reference_start - L + i - 1
           /\ (\E j \in 1..(xIdx - 1) : ~IsClip(rec.cigar[j][1])) =>
                 \A i \in 1..L : AddedRow(i).reference_start = xPrev[1].ref_pos + i - 1

\* C27: every row but the READ row has reference_start < reference_end (an
\* operation of length zero adds no such row); the READ row has
\* reference_end >= reference_start.
C27_RowCoordinates ==
    xSt # None =>
       \A i \in DOMAIN xSt[1].rows :
          LET row == xSt[1].rows[i]
          IN  IF row.element_type = 0
              THEN row.reference_end >= row.reference_start
              ELSE row.reference_start < row.reference_end

(***************************************************************************)
(* Properties of the cache files.                                          *)
(***************************************************************************)
\* C28: a cache file that exists at a key's path holds a complete table: a
\* request that finds the file never reads a partly written one, and a write
\* that failed has left no file at the path.
C28_CacheFileComplete ==
    cPc = "idle" =>
       /\ \A path \in DOMAIN cLocal : cLocal[path].complete
       /\ Has(cLog, "write_err") => ReqPath \notin DOMAIN cLocal

(***************************************************************************)
(* Properties of the tables served from the staged index.                   *)
(***************************************************************************)
IsVariantsStep == sOps' = sOps + 1 /\ sResp'.op = "get_locus_variants"

\* C29: when the lookup of a get_locus_variants call returns an entry that
\* contains the query and the artifact stored in the entry is there, the
\* table returned is read from that artifact, with no fresh extraction; so a
\* range fetched fresh and indexed serves every later request of a range
\* inside it.
C29_ServedFromIndexedArtifact ==
    [][(/\ IsVariantsStep
        /\ sResp'.status = "ok"
        /\ sResp'.start < sResp'.stop
        /\ LET found == FindCoveringVariantStagedFile(staged_tree, sResp'.chr,
                                                      sResp'.start, sResp'.stop)
           IN  /\ found.status = "some"
               /\ found.start < sResp'.start \/ found.end > sResp'.stop
               /\ found.file \in DOMAIN vRemote)
       => LET found == FindCoveringVariantStagedFile(staged_tree, sResp'.chr,
                                                     sResp'.start, sResp'.stop)
          IN  /\ sResp'.served # "fresh"
              /\ sResp'.rows = FilterVariantDf(vRemote[found.file], sResp'.start,
                                               sResp'.stop)]_vars

\* C30: the table get_locus_variants returns from a staged artifact is the
\* table a fresh extraction of exactly the query range returns, the same
\* rows with the same value in every column.
C30_StagedEqualsFresh ==
    (/\ sResp.op = "get_locus_variants"
     /\ sResp.status = "ok"
     /\ sResp.served = "staged")
    => \E ok \in SUBSET VariantFiles :
          LET fresh == ComputeVariantsForLocus(variant_file_groups, ok, sResp.chr,
                                               sResp.start, sResp.stop)
          IN  fresh.status = "ok" /\ fresh.rows = sResp.rows

(***************************************************************************)
(* Properties of one extract_reads pass.                                    *)
(***************************************************************************)
\* The length of the element of a row: the span of a deletion, the length
\* of the sequence of any other element.
ElementLength(row) ==
    IF row.element_type = ElementTypeToU8("DELETION")
    THEN row.reference_end - row.reference_start
    ELSE Len(row.sequence)

SetMax(S) == CHOOSE m \in S : \A x \in S : x <= m

\* The largest length among the elements of the table anchored at p, 1
\* when there is none.
WidthAt(df, p) ==
    LET anchored == {j \in DOMAIN df : /\ df[j].element_type # ElementTypeToU8("READ")
                                        /\ df[j].reference_start = p}
    IN  IF anchored = {} THEN 1 ELSE SetMax({ElementLength(df[j]) : j \in anchored})

\* C24: in the table of one extraction the column_width of every row is the
\* largest length among the elements other than reads anchored at the row's
\* reference_start, over all reads of the pass, and 1 when there is none.
C24_ColumnWidthIsMaxAnchored ==
    pRet = "ok" =>
       \A i \in DOMAIN pDf : pDf[i].column_width = WidthAt(pDf, pDf[i].reference_start)

\* C25: a record without an RG tag, or whose read group has no sample in
\* the header, gets "unknown" for read_group and sample_name on every row,
\* and the extraction does not fail on it.
C25_UnknownReadGroup ==
    (/\ pLast # None
     /\ pLast[1].ok
     /\ \/ pLast[1].rg = None
        \/ pLast[1].rg[1] \notin DOMAIN GetRgToSmMapping(pHdr))
    => /\ pRet \in {"running", "ok"}
       /\ \A i \in (pPrev + 1)..Len(pTags) : pTags[i] = <<"unknown", "unknown">>

\* C26: a record that does not decode is skipped: the pass goes on with the
\* records after it and does not fail.
C26_DecodeErrorSkipped ==
    (pFetch = "ok" /\ pLast # None /\ ~pLast[1].ok) => pRet \in {"running", "ok"}

(***************************************************************************)
(* Properties of the map stage_data returns and of its labels.              *)
(***************************************************************************)
\* C31: the map stage_data returns holds an artifact path for every
\* requested locus, a locus for which no source produced a row included.
C31_EveryLocusHasArtifact ==
    (stPc = "idle" /\ stArgs # None /\ stResult.status = "ok")
    => \A l \in Range(stArgs[1].loci) : l \in DOMAIN stResult.locus_to_file

\* C32: for every locus, whatever its contig name, splitting the chunk label
\* "{contig}:{start}-{stop}" in write_to_disk gives back the locus, and so
\* does parse_locus of the label.
C32_LabelRoundTrip ==
    lOut # None =>
       /\ lOut[1].staged = LocusOk(lIn[1][1], lIn[1][2], lIn[1][3])
       /\ lOut[1].parsed = LocusOk(lIn[1][1], lIn[1][2], lIn[1][3])

(***************************************************************************)
(* Properties of locus_should_be_fetched.                                   *)
(***************************************************************************)
\* C33: locus_should_be_fetched returns false only when the cache file of
\* the locus exists and the sources recorded in it are exactly the requested
\* sources; when the two sets differ it returns true.
C33_RefetchUnlessSameSources ==
    fOut # None =>
       LET file == fIn[1].file
       IN  /\ fOut[1] = "false" =>
                file.exists /\ file.readable /\ file.bam_paths = fIn[1].reads_paths
           /\ (file.exists /\ file.readable /\ file.bam_paths # fIn[1].reads_paths)
                => fOut[1] = "true"

(***************************************************************************)
(* Properties of the parallel tasks.                                        *)
(***************************************************************************)
\* C34: the parallel tasks of a batch share no mutable state: no two tasks
\* write the same process-wide variable, and no task's open uses a value
\* another task wrote.
C34_TasksShareNoState ==
    /\ \A w1, w2 \in gWrites : w1[2] = w2[2] => w1[1] = w2[1]
    /\ \A s \in SourceIds : gSaw[s] \subseteq {s}

(***************************************************************************)
(* Properties of the retried task of one source.                            *)
(***************************************************************************)
RowsOfChunk(df, label) == SelectSeq(df, LAMBDA row : row.chunk = label)

\* C35: whatever number of attempts the retry loop made, the table the
\* source contributes holds the rows of each requested locus exactly once:
\* no row of a failed attempt is in it and no locus is in it twice.
C35_EachLocusOnce ==
    rPc = "done" =>
       /\ Len(rRet[1]) = Len(StageDataFromOneFile(rSrc[1], "cohort", rLoci))
       /\ \A i \in DOMAIN rLoci :
             RowsOfChunk(rRet[1], ChunkLabel(rLoci[i][1], rLoci[i][2], rLoci[i][3]))
               = ExtractReads(rSrc[1], "cohort", rLoci[i][1], rLoci[i][2], rLoci[i][3])

\* The task returned a table with rows after an attempt that had collected
\* rows failed.
C35_Witness == rPc = "done" /\ rPartial /\ rAttempts >= 1 /\ rRet[1] # <<>>

\* C36: when positioning the cursor at the requested locus fails,
\* extract_reads reports an error: it returns no table, and no row read from
\* a cursor that was not positioned.
C36_FailedFetchReported ==
    pFetch = "err" => (pRet # "ok" /\ pSt.rows = <<>>)

(***************************************************************************)
(* Properties of the arithmetic and of the indices of the walk.             *)
(***************************************************************************)
\* The operation the walk executes next.
NextOp == xRec[1].cigar[xIdx + 1]

Walking == xRec # None /\ xSt # None /\ ~xPanic /\ xIdx < Len(xRec[1].cigar)

\* C37: the reference coordinates computed while decomposing a record stay
\* inside the unsigned 32-bit range: the anchor ref_pos - length of a leading
\* soft clip is never below zero, and no coordinate of a row has wrapped.
C37_CoordinatesInRange ==
    /\ (Walking /\ xIdx = 0 /\ NextOp[1] = "S") => xSt[1].ref_pos - NextOp[2] >= 0
    /\ xSt # None =>
          \A i \in DOMAIN xSt[1].rows :
             xSt[1].rows[i].reference_start <= xRec[1].pos + 1 + RefLen(xRec[1].cigar)

\* C38: for a record whose read-consuming operation lengths sum to the
\* length of its read sequence, every index and slice the walk takes into
\* the read sequence is within bounds, and after the walk read_pos is the
\* sequence length + 1.
C38_ReadIndicesInBounds ==
    (xRec # None /\ xSt # None /\ QueryLen(xRec[1].cigar) = Len(xRec[1].seq))
    => /\ (Walking /\ NextOp[1] = "I")
             => xSt[1].read_pos - 1 + NextOp[2] <= Len(xRec[1].seq)
       /\ (Walking /\ NextOp[1] = "X") => xSt[1].read_pos - 1 < Len(xRec[1].seq)
       /\ (Walking /\ NextOp[1] = "S")
             => xSt[1].read_pos - 1 + NextOp[2] <= Len(xRec[1].seq)
       /\ (WalkDone /\ ~xPanic) => xSt[1].read_pos = Len(xRec[1].seq) + 1

(***************************************************************************)
(* Properties of the attach operations.                                     *)
(***************************************************************************)
\* C39: an attach operation that returns an error leaves the session as it
\* was before the call: nothing of the rejected list is added to the
\* attached reads, loci or variant groups.
C39_FailedAttachChangesNothing ==
    [][(/\ sOps' = sOps + 1
        /\ sResp'.op \in {"attach_loci", "attach_variants"}
        /\ sResp'.status = "err")
       => (/\ sLoci' = sLoci
           /\ variant_file_groups' = variant_file_groups
           /\ cCohort' = cCohort)]_vars

====
